---- MODULE Spec2Model ----
(***************************************************************************)
(* Model of the IoT sensor pipeline: the reading generator                 *)
(* (sensor_simulator.py), the sender loop (send_to_mongo.py), the          *)
(* statistical analyzer (analisis_opcional.py), the queries (queries.py)   *)
(* and the batch upload of medir_tiempo_subida.py over a document store.   *)
(*                                                                         *)
(* Numbers.  Temperatures and uv_index are kept in tenths once rounded,    *)
(* a random draw is kept in hundredths before rounding.  Instants are      *)
(* whole hours; an ISO-8601 string is the sequence of its fields, compared *)
(* field by field as the store compares strings.                           *)
(***************************************************************************)
EXTENDS Integers, Sequences, FiniteSets, TLC

VARIABLES
    now,        \* the UTC wall clock, in hours
    tz,         \* the UTC offset of the machine's local time zone, in hours
    genCall,    \* the last generator call: [op, device_id]
    reading,    \* the reading the last generator call returned
    store,      \* the collection: the sequence of stored documents
    call,       \* the last analyzer call: [op, ...arguments]
    result,     \* what the last analyzer call returned
    log,        \* whether the last analyzer call printed an error diagnostic
    pc,         \* MongoSender.run: the position in the loop
    count,      \* MongoSender.run: the local counter of successful inserts
    max_readings, \* MongoSender.run: its max_readings argument
    client,     \* MongoSender.client: "none", "open" or "closed"
    cur,        \* MongoSender.run: the reading generated in this iteration
    owner,      \* the class of the reading client: AdvancedAnalysis or IoTQueries
    collection, \* the reading client's self.collection: None or "bound"
    escaped,    \* the exception the last call let through to its caller
    health,     \* the store: "ok", or the exception its operations raise
    batch,      \* medir_tiempo_lote: the list documentos
    calledAt,   \* the instant of each generator call that filled batch
    lote,       \* medir_tiempo_lote: [pc, num_documentos, next, insertados]
    fetched     \* detect_outliers: the list all_readings of the call under way

vars == <<now, tz, genCall, reading, store, call, result, log,
          pc, count, max_readings, client, cur,
          owner, collection, escaped, health, batch, calledAt, lote,
          fetched>>

genVars == <<genCall, reading>>
anaVars == <<call, result, log>>
sndVars == <<pc, count, max_readings, client, cur>>
conVars == <<owner, collection, escaped, health>>
lotVars == <<batch, calledAt, lote>>

None == "None"

\* max_readings = None (the default), kept as a number no caller passes.
NoLimit == -1

(***************************************************************************)
(* Bounds of the model.                                                    *)
(***************************************************************************)
\* the clock starts here and is not advanced past StartClock + MaxTicks
MaxTicks == 2
\* the largest number of documents the store holds
MaxDocs == 5
\* the largest max_readings a run is started with
MaxReadings == 2

\* The instant the clock shows at the start (two days after the epoch of the
\* model, so that local times and windows stay positive).
StartClock == 48

(***************************************************************************)
(* SensorSimulator.__init__: ranges, device pools, locations.              *)
(***************************************************************************)
interior_temp_range == <<1800, 2800>>        \* hundredths of a degree C
interior_humidity_range == <<30, 70>>
interior_light_range == <<100, 500>>
exterior_temp_range == <<500, 3500>>         \* hundredths of a degree C
exterior_light_range == <<200, 1000>>
uv_index_range == <<0, 1100>>                \* hundredths

interior_sensors == <<"sensor_01", "sensor_03", "sensor_05">>
exterior_sensors == <<"sensor_02", "sensor_04", "sensor_06">>
interior_locations == <<"Sala 1", "Sala 2", "Oficina A", "Oficina B">>
exterior_locations == <<"Patio", "Jardin", "Terraza", "Entrada">>

Range(s) == {s[i] : i \in DOMAIN s}

(***************************************************************************)
(* round(x, 1) of a value given as the fraction x / d of a tenth.  A value *)
(* half way between two tenths goes to either neighbour: which one the     *)
(* binary float falls to is an input (tieUp).                              *)
(***************************************************************************)
round_to(x, d, tieUp) ==
    LET q == x \div d
        r == x % d
    IN  IF 2 * r < d THEN q
        ELSE IF 2 * r > d THEN q + 1
        ELSE IF tieUp THEN q + 1 ELSE q

\* datetime.isoformat(): the fields of the instant, most significant first,
\* followed by the offset "+00:00" when the datetime is timezone-aware.
UtcSuffix == <<"+00:00">>

isoformat(t, aware) ==
    <<t \div 24, t % 24>> \o (IF aware THEN UtcSuffix ELSE <<>>)

\* (mutant) the offset of the Fahrenheit scale forgotten
celsius_to_fahrenheit_no_offset(celsius, tieUp) ==
    round_to(celsius * 18, 100, tieUp)

\* _celsius_to_fahrenheit: round((celsius * 9/5) + 32, 1); celsius in
\* hundredths, the result in tenths of a degree F.
celsius_to_fahrenheit(celsius, tieUp) ==
    round_to(celsius * 18 + 32000, 100, tieUp)

(***************************************************************************)
(* The generator.  rnd holds what the random module returns in this call:  *)
(* device and location (indices for random.choice), temp and uv (draws of  *)
(* random.uniform, in hundredths), humidity and light (random.randint),    *)
(* tie (the direction of a rounding tie).                                  *)
(***************************************************************************)
\* (mutant) the unit copied from the exterior generator
generate_interior_reading_unit_F(device_id, rnd, t) ==
    [device_id   |-> IF device_id = None
                     THEN interior_sensors[rnd.device] ELSE device_id,
     type        |-> "interior",
     temperature |-> round_to(rnd.temp, 10, rnd.tie),
     humidity    |-> rnd.humidity,
     light       |-> rnd.light,
     unit        |-> "F",
     location    |-> interior_locations[rnd.location],
     timestamp   |-> isoformat(t, TRUE)]

generate_interior_reading(device_id, rnd, t) ==
    [device_id   |-> IF device_id = None
                     THEN interior_sensors[rnd.device] ELSE device_id,
     type        |-> "interior",
     temperature |-> round_to(rnd.temp, 10, rnd.tie),
     humidity    |-> rnd.humidity,
     light       |-> rnd.light,
     unit        |-> "C",
     location    |-> interior_locations[rnd.location],
     timestamp   |-> isoformat(t, TRUE)]

\* (mutant) the humidity field copied from the interior generator
generate_exterior_reading_with_humidity(device_id, rnd, t) ==
    [device_id   |-> IF device_id = None
                     THEN exterior_sensors[rnd.device] ELSE device_id,
     type        |-> "exterior",
     temperature |-> celsius_to_fahrenheit(rnd.temp, rnd.tie),
     humidity    |-> rnd.light,
     light       |-> rnd.light,
     uv_index    |-> round_to(rnd.uv, 10, rnd.tie),
     unit        |-> "F",
     location    |-> exterior_locations[rnd.location],
     timestamp   |-> isoformat(t, TRUE)]

\* (mutant) the device drawn from the interior pool
generate_exterior_reading_interior_pool(device_id, rnd, t) ==
    [device_id   |-> IF device_id = None
                     THEN interior_sensors[rnd.device] ELSE device_id,
     type        |-> "exterior",
     temperature |-> celsius_to_fahrenheit(rnd.temp, rnd.tie),
     light       |-> rnd.light,
     uv_index    |-> round_to(rnd.uv, 10, rnd.tie),
     unit        |-> "F",
     location    |-> exterior_locations[rnd.location],
     timestamp   |-> isoformat(t, TRUE)]

generate_exterior_reading(device_id, rnd, t) ==
    [device_id   |-> IF device_id = None
                     THEN exterior_sensors[rnd.device] ELSE device_id,
     type        |-> "exterior",
     temperature |-> celsius_to_fahrenheit(rnd.temp, rnd.tie),
     light       |-> rnd.light,
     uv_index    |-> round_to(rnd.uv, 10, rnd.tie),
     unit        |-> "F",
     location    |-> exterior_locations[rnd.location],
     timestamp   |-> isoformat(t, TRUE)]

\* generate_random_reading: random.choice(["interior", "exterior"]), then the
\* family's generator with no device_id.
generate_random_reading(sensor_type, rnd, t) ==
    IF sensor_type = "interior"
    THEN generate_interior_reading(None, rnd, t)
    ELSE generate_exterior_reading(None, rnd, t)

(***************************************************************************)
(* What the random module may return.  random.uniform(a, b) returns any    *)
(* value of [a, b]; the draws enumerated are the ends, a value next to     *)
(* each end that rounds on a tie (18.25, 5.25 C = 41.45 F), and the middle.*)
(***************************************************************************)
UniformDraws(range) ==
    LET lo == range[1]
        hi == range[2]
    IN  {lo, lo + 25, (lo + hi) \div 2, hi - 25, hi}

RandintDraws(range) == {range[1], (range[1] + range[2]) \div 2, range[2]}

InteriorRnd ==
    [device : 1..3, location : 1..4, tie : BOOLEAN,
     temp : UniformDraws(interior_temp_range),
     humidity : RandintDraws(interior_humidity_range),
     light : RandintDraws(interior_light_range)]

ExteriorRnd ==
    [device : 1..3, location : 1..4, tie : BOOLEAN,
     temp : UniformDraws(exterior_temp_range),
     uv : UniformDraws(uv_index_range),
     light : RandintDraws(exterior_light_range)]

\* The device_id arguments a caller passes: none, an id of either pool, or an
\* id of neither.
DeviceArgs == {None, "sensor_01", "sensor_02", "sensor_99"}

NoReading == [type |-> "none"]
NoCall == [op |-> "none"]
NoLote == [pc |-> "idle", num_documentos |-> 0, next |-> 1, insertados |-> 0]

(***************************************************************************)
(* Initial state: nothing generated, an empty collection, no analysis run, *)
(* the sender not started.                                                 *)
(***************************************************************************)
TzOffsets == {-3, 0, 3}

Init ==
    /\ now = StartClock
    /\ tz = 0
    /\ genCall = NoCall
    /\ reading = NoReading
    /\ store = <<>>
    /\ call = NoCall
    /\ result = <<>>
    /\ log = FALSE
    /\ pc = "idle"
    /\ count = 0
    /\ max_readings = NoLimit
    /\ client = "none"
    /\ cur = NoReading
    /\ owner = "AdvancedAnalysis"
    /\ collection = None
    /\ escaped = "none"
    /\ health = "ok"
    /\ batch = <<>>
    /\ calledAt = <<>>
    /\ lote = NoLote
    /\ fetched = <<>>

\* The wall clock advances.
Tick ==
    /\ now < StartClock + MaxTicks
    /\ now' = now + 1
    /\ UNCHANGED <<fetched, conVars, lotVars, tz, genVars, store, anaVars, sndVars>>

(***************************************************************************)
(* Generator calls.                                                        *)
(***************************************************************************)
GenerateInterior ==
    \E d \in DeviceArgs, rnd \in InteriorRnd :
        /\ genCall = NoCall
        /\ genCall' = [op |-> "generate_interior_reading", device_id |-> d]
        /\ reading' = generate_interior_reading(d, rnd, now)
        /\ UNCHANGED <<fetched, conVars, lotVars, now, tz, store, anaVars, sndVars>>

GenerateExterior ==
    \E d \in DeviceArgs, rnd \in ExteriorRnd :
        /\ genCall = NoCall
        /\ genCall' = [op |-> "generate_exterior_reading", device_id |-> d]
        /\ reading' = generate_exterior_reading(d, rnd, now)
        /\ UNCHANGED <<fetched, conVars, lotVars, now, tz, store, anaVars, sndVars>>

GenerateRandom ==
    \E k \in {"interior", "exterior"} :
        \E rnd \in (IF k = "interior" THEN InteriorRnd ELSE ExteriorRnd) :
            /\ genCall = NoCall
            /\ genCall' = [op |-> "generate_random_reading", device_id |-> None]
            /\ reading' = generate_random_reading(k, rnd, now)
            /\ UNCHANGED <<fetched, conVars, lotVars, now, tz, store, anaVars, sndVars>>

\* The caller drops the reading; the next call starts afresh.
GenReturn ==
    /\ genCall # NoCall
    /\ genCall' = NoCall
    /\ reading' = NoReading
    /\ UNCHANGED <<fetched, conVars, lotVars, now, tz, store, anaVars, sndVars>>

GenTick == genCall = NoCall /\ Tick

NextGen == GenTick \/ GenerateInterior \/ GenerateExterior \/ GenerateRandom
              \/ GenReturn

SpecGen == Init /\ [][NextGen]_vars


(***************************************************************************)
(* MongoSender (send_to_mongo.py).                                         *)
(*                                                                         *)
(* insert_one appends the document to the collection.                      *)
(***************************************************************************)
insert_one(coll, doc) == Append(coll, doc)

\* The max_readings arguments run is started with.
MaxReadingsArgs == {NoLimit} \cup (0..MaxReadings)

\* What the random module returns during a run: one draw per field, two
\* devices and one location per family.
SenderInteriorRnd ==
    [device : 1..2, location : {1}, tie : {FALSE},
     temp : {(interior_temp_range[1] + interior_temp_range[2]) \div 2},
     humidity : {interior_humidity_range[1]},
     light : {interior_light_range[1]}]

SenderExteriorRnd ==
    [device : 1..2, location : {1}, tie : {FALSE},
     temp : {(exterior_temp_range[1] + exterior_temp_range[2]) \div 2},
     uv : {uv_index_range[2]},
     light : {exterior_light_range[2]}]

\* run(interval, max_readings), connect() returning True: the client is
\* created and answers the ping; count = 0 and the loop is entered.
RunConnect ==
    /\ pc = "idle"
    /\ \E m \in MaxReadingsArgs : max_readings' = m
    /\ client' = "open"
    /\ count' = 0
    /\ pc' = "generate"
    /\ UNCHANGED <<fetched, conVars, lotVars, now, tz, genVars, store, anaVars, cur>>

\* (mutant) the value connect() returned is not looked at
RunConnectFails_ignored ==
    /\ pc = "idle"
    /\ \E m \in MaxReadingsArgs : max_readings' = m
    /\ client' = "created"
    /\ pc' = "generate"
    /\ UNCHANGED <<fetched, conVars, lotVars, now, tz, genVars, store, anaVars, count, cur>>

\* run, connect() returning False: the client object is created, the ping
\* fails, run prints and returns before the try block.
RunConnectFails ==
    /\ pc = "idle"
    /\ \E m \in MaxReadingsArgs : max_readings' = m
    /\ client' = "created"
    /\ pc' = "done"
    /\ UNCHANGED <<fetched, conVars, lotVars, now, tz, genVars, store, anaVars, count, cur>>

\* reading = self.simulator.generate_random_reading()
RunGenerate ==
    /\ pc = "generate"
    /\ \E k \in {"interior", "exterior"} :
         \E rnd \in (IF k = "interior" THEN SenderInteriorRnd
                                       ELSE SenderExteriorRnd) :
            cur' = generate_random_reading(k, rnd, now)
    /\ pc' = "send"
    /\ UNCHANGED <<fetched, conVars, lotVars, now, tz, genVars, store, anaVars, count, max_readings, client>>

\* (mutant) the insert accepted and not counted
RunSendOk_uncounted ==
    /\ pc = "send"
    /\ Len(store) <= MaxReadings
    /\ store' = insert_one(store, cur)
    /\ pc' = "check"
    /\ UNCHANGED <<fetched, conVars, lotVars, now, tz, genVars, anaVars, count, max_readings, client, cur>>

\* success = self.send_reading(reading), the insert accepted; count += 1.
\* (The collection is not grown past the bound of the model.)
RunSendOk ==
    /\ pc = "send"
    /\ Len(store) <= MaxReadings
    /\ store' = insert_one(store, cur)
    /\ count' = count + 1
    /\ pc' = "check"
    /\ UNCHANGED <<fetched, conVars, lotVars, now, tz, genVars, anaVars, max_readings, client, cur>>

\* (mutant) a failed insert is counted
RunSendFails_counted ==
    /\ pc = "send"
    /\ count' = count + 1
    /\ pc' = "check"
    /\ UNCHANGED <<fetched, conVars, lotVars, now, tz, genVars, store, anaVars, max_readings, client, cur>>

\* success = self.send_reading(reading), insert_one raising: send_reading
\* prints and returns False, the counter stays.
RunSendFails ==
    /\ pc = "send"
    /\ pc' = "check"
    /\ UNCHANGED <<fetched, conVars, lotVars, now, tz, genVars, store, anaVars, count, max_readings, client, cur>>

\* if max_readings and count >= max_readings: break
limit_reached(m, c) == m # NoLimit /\ m # 0 /\ c >= m

RunCheck ==
    /\ pc = "check"
    /\ pc' = IF limit_reached(max_readings, count) THEN "finally" ELSE "sleep"
    /\ UNCHANGED <<fetched, conVars, lotVars, now, tz, genVars, store, anaVars, count, max_readings, client, cur>>

\* time.sleep(interval): seconds pass, the hour may change.
RunSleep ==
    /\ pc = "sleep"
    /\ \/ now' = now
       \/ now < StartClock + MaxTicks /\ now' = now + 1
    /\ pc' = "generate"
    /\ UNCHANGED <<fetched, conVars, lotVars, tz, genVars, store, anaVars, count, max_readings, client, cur>>

\* KeyboardInterrupt anywhere in the try block.
RunInterrupt ==
    /\ pc \in {"generate", "send", "check", "sleep"}
    /\ pc' = "finally"
    /\ UNCHANGED <<fetched, conVars, lotVars, now, tz, genVars, store, anaVars, count, max_readings, client, cur>>

\* (mutant) the finally block without the close
RunFinally_no_close ==
    /\ pc = "finally"
    /\ pc' = "done"
    /\ UNCHANGED <<fetched, conVars, lotVars, now, tz, genVars, store, anaVars, count, max_readings, client, cur>>

\* finally: if self.client: self.client.close()
RunFinally ==
    /\ pc = "finally"
    /\ client' = IF client # "none" THEN "closed" ELSE client
    /\ pc' = "done"
    /\ UNCHANGED <<fetched, conVars, lotVars, now, tz, genVars, store, anaVars, count, max_readings, cur>>


(***************************************************************************)
(* Exact arithmetic for the analyzer.  A number is a fraction <<n, d>> in  *)
(* lowest terms with d > 0; the code's floats are taken as the reals they  *)
(* approximate.                                                            *)
(***************************************************************************)
Abs(x) == IF x < 0 THEN -x ELSE x

RECURSIVE GCD(_, _)
GCD(a, b) == IF b = 0 THEN a ELSE GCD(b, a % b)

Rat(n, d) ==
    LET g == GCD(Abs(n), Abs(d))
        sgn == IF d < 0 THEN -1 ELSE 1
    IN  <<sgn * (n \div g), sgn * (d \div g)>>

RInt(n) == <<n, 1>>
RAdd(a, b) == Rat(a[1] * b[2] + b[1] * a[2], a[2] * b[2])
RSub(a, b) == Rat(a[1] * b[2] - b[1] * a[2], a[2] * b[2])
RMul(a, b) == Rat(a[1] * b[1], a[2] * b[2])
RDiv(a, b) == Rat(a[1] * b[2], a[2] * b[1])
RLess(a, b) == a[1] * b[2] < b[1] * a[2]
RAbs(a) == <<Abs(a[1]), a[2]>>

RECURSIVE RSum(_)
RSum(s) == IF s = <<>> THEN RInt(0) ELSE RAdd(s[1], RSum(Tail(s)))

\* round(x * scale) to the nearest integer, a tie to the even neighbour
\* (Python's round and the store's $round)
RRound(a, scale) ==
    LET x == a[1] * scale
        q == x \div a[2]
        r == x % a[2]
    IN  IF 2 * r < a[2] THEN q
        ELSE IF 2 * r > a[2] THEN q + 1
        ELSE IF q % 2 = 0 THEN q ELSE q + 1

\* the largest k with k * k <= n
RECURSIVE IsqrtBetween(_, _, _)
IsqrtBetween(n, lo, hi) ==
    IF lo >= hi THEN lo
    ELSE LET mid == (lo + hi + 1) \div 2
         IN  IF mid * mid <= n THEN IsqrtBetween(n, mid, hi)
                               ELSE IsqrtBetween(n, lo, mid - 1)

Isqrt(n) == IsqrtBetween(n, 0, 46340)

\* round(sqrt(a) * scale) for a >= 0: the k with (2k-1)^2 <= 4 scale^2 a
RoundSqrt(a, scale) ==
    LET m == 2 * scale
        d1 == (a[1] * m) \div a[2]
        r1 == (a[1] * m) % a[2]
        x == d1 * m + (r1 * m) \div a[2]
    IN  (Isqrt(x) + 1) \div 2

(***************************************************************************)
(* The store's documents as the analyzer reads them.                       *)
(***************************************************************************)
\* reading.get(key): None when the document lacks the key
Get(d, key) == IF key \in DOMAIN d THEN d[key] ELSE None

\* reading[field] as a number: temperature and uv_index are kept in tenths
Number(field, raw) ==
    IF field \in {"temperature", "uv_index"} THEN Rat(raw, 10) ELSE RInt(raw)

\* collection.find({}, projection): every document, in the store's order, cut
\* to the projected keys
find(coll, keys) ==
    [i \in 1..Len(coll) |-> [k \in (DOMAIN coll[i]) \cap keys |-> coll[i][k]]]

(***************************************************************************)
(* AdvancedAnalysis.detect_outliers.                                       *)
(***************************************************************************)
\* (mutant) every temperature converted, whatever its unit
value_for_stats_always_converts(r, field) ==
    IF field = "temperature"
    THEN RDiv(RSub(Number(field, r[field]), RInt(32)), Rat(18, 10))
    ELSE Number(field, r[field])

\* the value a reading contributes to the statistics (first loop)
value_for_stats(r, field) ==
    IF field = "temperature" /\ Get(r, "unit") = "F"
    THEN RDiv(RSub(Number(field, r[field]), RInt(32)), Rat(18, 10))
    ELSE Number(field, r[field])

\* the value a reading is tested with (second loop)
value_for_zscore(r, field) ==
    IF field = "temperature" /\ Get(r, "unit") = "F"
    THEN RDiv(RSub(Number(field, r[field]), RInt(32)), Rat(18, 10))
    ELSE Number(field, r[field])

\* (mutant) a reading without the field counted as the value 0
RECURSIVE collect_values_missing_as_zero(_, _)
collect_values_missing_as_zero(rs, field) ==
    IF rs = <<>> THEN <<>>
    ELSE <<IF field \in DOMAIN rs[1] THEN value_for_stats(rs[1], field)
                                      ELSE RInt(0)>>
         \o collect_values_missing_as_zero(Tail(rs), field)

\* values: the normalized values of the readings that have the field
RECURSIVE collect_values(_, _)
collect_values(rs, field) ==
    IF rs = <<>> THEN <<>>
    ELSE IF field \in DOMAIN rs[1]
         THEN <<value_for_stats(rs[1], field)>> \o collect_values(Tail(rs), field)
         ELSE collect_values(Tail(rs), field)

\* statistics.mean(values), for a non-empty values
mean_of(values) == RDiv(RSum(values), RInt(Len(values)))

RECURSIVE sum_sq_dev(_, _)
sum_sq_dev(values, m) ==
    IF values = <<>> THEN RInt(0)
    ELSE LET d == RSub(values[1], m)
         IN  RAdd(RMul(d, d), sum_sq_dev(Tail(values), m))

\* (mutant) the population variance: divisor n
variance_population(values) ==
    RDiv(sum_sq_dev(values, mean_of(values)), RInt(Len(values)))

\* statistics.stdev(values) squared, for at least two values: the sample
\* variance, divisor n - 1.  (std_dev is kept as its square.)
variance(values) ==
    RDiv(sum_sq_dev(values, mean_of(values)), RInt(Len(values) - 1))

\* (mutant) the length guard dropped
enough_values_unguarded(values) == TRUE

\* if len(values) < 2: return []
enough_values(values) == Len(values) >= 2

\* (mutant) the zero guard dropped
no_dispersion_unguarded(var) == FALSE

\* if std_dev == 0: return []
no_dispersion(var) == var[1] = 0

\* (mutant) the comparison made non-strict
exceeds_or_equals(z2, z_threshold) ==
    \/ z_threshold <= 0
    \/ ~RLess(z2, RMul(Rat(z_threshold, 10), Rat(z_threshold, 10)))

\* if z_score > z_threshold, with z_score >= 0 given as its square z2 and
\* z_threshold in tenths
exceeds(z2, z_threshold) ==
    \/ z_threshold < 0
    \/ RLess(RMul(Rat(z_threshold, 10), Rat(z_threshold, 10)), z2)

outlier_doc(r, field, value, z2, m, var) ==
    (field :> r[field]) @@
    [device_id     |-> Get(r, "device_id"),
     type          |-> Get(r, "type"),
     timestamp     |-> Get(r, "timestamp"),
     unit          |-> Get(r, "unit"),
     z_score       |-> RoundSqrt(z2, 1000),
     value_celsius |-> IF field = "temperature" THEN RRound(value, 100)
                                                ELSE r[field],
     mean          |-> RRound(m, 100),
     std_dev       |-> RoundSqrt(var, 100)]

\* the second loop: the readings whose z_score exceeds the threshold, in the
\* store's order
RECURSIVE collect_outliers(_, _, _, _, _)
collect_outliers(rs, field, z_threshold, m, var) ==
    IF rs = <<>> THEN <<>>
    ELSE IF field \in DOMAIN rs[1]
         THEN LET value == value_for_zscore(rs[1], field)
                  d == RSub(value, m)
                  z2 == RDiv(RMul(d, d), var)
                  rest == collect_outliers(Tail(rs), field, z_threshold, m, var)
              IN  IF exceeds(z2, z_threshold)
                  THEN <<outlier_doc(rs[1], field, value, z2, m, var)>> \o rest
                  ELSE rest
         ELSE collect_outliers(Tail(rs), field, z_threshold, m, var)

\* outliers.sort(key=z_score, reverse=True): stable, equal keys keep their order
RECURSIVE insert_desc(_, _)
insert_desc(sorted, x) ==
    IF sorted = <<>> THEN <<x>>
    ELSE IF sorted[1].z_score >= x.z_score
         THEN <<sorted[1]>> \o insert_desc(Tail(sorted), x)
         ELSE <<x>> \o sorted

\* (mutant) the list left in the store's order
sort_desc_skipped(s) == s

RECURSIVE sort_desc(_)
sort_desc(s) ==
    IF s = <<>> THEN <<>>
    ELSE insert_desc(sort_desc(SubSeq(s, 1, Len(s) - 1)), s[Len(s)])

(***************************************************************************)
(* Exceptions.  pymongo.errors: ServerSelectionTimeoutError is an          *)
(* AutoReconnect, which is a ConnectionFailure; OperationFailure and       *)
(* InvalidURI (a ConfigurationError) are PyMongoErrors that are not.       *)
(* All of them, and the errors of a computation, are Exceptions.           *)
(***************************************************************************)
ConnectionFailures ==
    {"ConnectionFailure", "AutoReconnect", "ServerSelectionTimeoutError"}

Exceptions ==
    ConnectionFailures \cup {"OperationFailure", "InvalidURI", "TypeError",
                             "StatisticsError", "ZeroDivisionError",
                             "AttributeError"}

\* except ConnectionFailure
except_ConnectionFailure(exc) == exc \in ConnectionFailures

\* (mutant) a handler that catches connection failures only
except_Exception_narrow(exc) == exc \in ConnectionFailures

\* except Exception
except_Exception(exc) == exc \in Exceptions

Returned(rows) == [ret |-> rows, raised |-> FALSE, escaped |-> "none"]
\* except Exception: print the diagnostic, return []
Caught == [ret |-> <<>>, raised |-> TRUE, escaped |-> "none"]

\* exc is raised inside the try block of an analyzer or query method
Raise(exc) ==
    IF except_Exception(exc) THEN Caught
    ELSE [ret |-> <<>>, raised |-> FALSE, escaped |-> exc]

\* A method of the reading client: the early return on an unbound
\* collection, then the try block, in which the store raises when it is not
\* healthy.
method(coll_state, fault, body) ==
    IF coll_state = None THEN Returned(<<>>)
    ELSE IF fault # "ok" THEN Raise(fault)
    ELSE body

\* A stored value that is not a number (a string such as "n/a"), kept as a
\* number no sensor produces.
NotANumber == -99999

\* the conversion reading[field] - 32 is applied to a value that is not a number
conversion_raises(readings, field) ==
    \E i \in 1..Len(readings) :
        /\ field \in DOMAIN readings[i]
        /\ readings[i][field] = NotANumber
        /\ field = "temperature"
        /\ Get(readings[i], "unit") = "F"

\* statistics.mean is given a value that is not a number
mean_raises(readings, field) ==
    \E i \in 1..Len(readings) :
        /\ field \in DOMAIN readings[i]
        /\ readings[i][field] = NotANumber

ProjectedKeys(field) == {field, "device_id", "type", "timestamp", "unit"}

\* detect_outliers after the fetch: both loops run over all_readings
outliers_from(all_readings, field, z_threshold) ==
    LET values == collect_values(all_readings, field)
    IN  IF all_readings = <<>> THEN Returned(<<>>)
        ELSE IF conversion_raises(all_readings, field) THEN Raise("TypeError")
        ELSE IF ~enough_values(values) THEN Returned(<<>>)
        \* statistics.mean raises on no data
        ELSE IF values = <<>> THEN Raise("StatisticsError")
        ELSE IF mean_raises(all_readings, field) THEN Raise("TypeError")
        ELSE LET m == mean_of(values)
                 var == IF Len(values) > 1 THEN variance(values) ELSE RInt(0)
             IN  IF no_dispersion(var) THEN Returned(<<>>)
                 \* (value - mean) / std_dev raises on std_dev = 0
                 ELSE IF var[1] = 0 THEN Raise("ZeroDivisionError")
                 ELSE Returned(sort_desc(
                         collect_outliers(all_readings, field, z_threshold, m, var)))

detect_outliers(coll, field, z_threshold) ==
    outliers_from(find(coll, ProjectedKeys(field)), field, z_threshold)

(***************************************************************************)
(* The collection under analysis.  Documents reach it from the sender or   *)
(* from any other writer; the analyzer reads whatever is stored.           *)
(***************************************************************************)
OutlierDocs ==
    { [device_id |-> "sensor_01", type |-> "interior", temperature |-> 100,
       humidity |-> 40, light |-> 100, unit |-> "C", location |-> "Sala 1",
       timestamp |-> isoformat(StartClock, TRUE)],
      [device_id |-> "sensor_03", type |-> "interior", temperature |-> 1000,
       humidity |-> 40, light |-> 300, unit |-> "C", location |-> "Sala 2",
       timestamp |-> isoformat(StartClock, TRUE)],
      [device_id |-> "sensor_02", type |-> "exterior", temperature |-> 1310,
       light |-> 200, uv_index |-> 55, unit |-> "F", location |-> "Patio",
       timestamp |-> isoformat(StartClock, TRUE)],
      [device_id |-> "sensor_04", type |-> "exterior",
       light |-> 200, uv_index |-> 55, unit |-> "F", location |-> "Patio",
       timestamp |-> isoformat(StartClock, TRUE)] }

OutlierFields == {"temperature", "light", "humidity"}

\* z_threshold, in tenths
Thresholds == {-10, 0, 10, 17, 19, 25}

\* a writer stores a document
InsertOutlierDoc ==
    /\ call = NoCall
    /\ Len(store) < MaxDocs
    /\ \E d \in OutlierDocs : store' = insert_one(store, d)
    /\ UNCHANGED <<fetched, conVars, lotVars, now, tz, genVars, anaVars, sndVars>>

DetectOutliers ==
    /\ call = NoCall
    /\ \E field \in OutlierFields, z \in Thresholds :
         LET r == method(collection, health, detect_outliers(store, field, z))
         IN  /\ call' = [op |-> "detect_outliers", field |-> field,
                         z_threshold |-> z]
             /\ result' = r.ret
             /\ log' = r.raised
             /\ escaped' = r.escaped
    /\ owner = "AdvancedAnalysis"
    /\ UNCHANGED <<fetched, owner, collection, health, lotVars, now, tz, genVars,
                   store, sndVars>>

\* the caller is done with the result
AnalysisReturn ==
    /\ call # NoCall
    /\ call' = NoCall
    /\ result' = <<>>
    /\ log' = FALSE
    /\ escaped' = "none"
    /\ UNCHANGED <<fetched, owner, collection, health, lotVars, now, tz, genVars,
                   store, sndVars>>

NextOutliers == InsertOutlierDoc \/ DetectOutliers \/ AnalysisReturn

\* The analyzer has connected: its collection is bound.
InitConnected ==
    /\ now = StartClock
    /\ tz = 0
    /\ genCall = NoCall
    /\ reading = NoReading
    /\ store = <<>>
    /\ call = NoCall
    /\ result = <<>>
    /\ log = FALSE
    /\ pc = "idle"
    /\ count = 0
    /\ max_readings = NoLimit
    /\ client = "none"
    /\ cur = NoReading
    /\ owner = "AdvancedAnalysis"
    /\ collection = "bound"
    /\ escaped = "none"
    /\ health = "ok"
    /\ batch = <<>>
    /\ calledAt = <<>>
    /\ lote = NoLote
    /\ fetched = <<>>

SpecOutliers == InitConnected /\ [][NextOutliers]_vars

(***************************************************************************)
(* AdvancedAnalysis.average_temperature_by_hour.                           *)
(***************************************************************************)
\* The store's order on strings, for two ISO strings: the date and time
\* fields decide; when they agree, the string without an offset is a proper
\* prefix of the one with it, and sorts first.
iso_less(a, b) ==
    \/ a[1] < b[1]
    \/ a[1] = b[1] /\ a[2] < b[2]
    \/ a[1] = b[1] /\ a[2] = b[2] /\ Len(a) < Len(b)

\* start_time = datetime.now() - timedelta(hours=hours_back): the local wall
\* clock, without offset
start_time(t, offset, hours_back) == (t + offset) - hours_back

\* $match: timestamp >= start_time.isoformat()
match_since(coll, start) ==
    SelectSeq(coll, LAMBDA d : /\ "timestamp" \in DOMAIN d
                               /\ ~iso_less(d.timestamp, isoformat(start, FALSE)))

\* (mutant) the hour of the instant, days apart kept apart
hour_of_instant(d) == d.timestamp[1] * 24 + d.timestamp[2]

\* $hour of $dateFromString: the hour of the day of the stored instant
hour_of(d) == d.timestamp[2]

\* $cond: (temperature - 32) / 1.8 when unit is F, temperature otherwise
temperature_celsius(d) ==
    IF Get(d, "unit") = "F"
    THEN RDiv(RSub(Number("temperature", d.temperature), RInt(32)), Rat(18, 10))
    ELSE Number("temperature", d.temperature)

RECURSIVE RMin(_)
RMin(s) ==
    IF Len(s) = 1 THEN s[1]
    ELSE LET m == RMin(Tail(s)) IN IF RLess(s[1], m) THEN s[1] ELSE m

RECURSIVE RMax(_)
RMax(s) ==
    IF Len(s) = 1 THEN s[1]
    ELSE LET m == RMax(Tail(s)) IN IF RLess(m, s[1]) THEN s[1] ELSE m

\* the order of $sort on sensor_type: "exterior" before "interior"
type_rank(t) == IF t = "exterior" THEN 1 ELSE IF t = "interior" THEN 2 ELSE 3

group_less(g, h) ==
    \/ g[1] < h[1]
    \/ g[1] = h[1] /\ type_rank(g[2]) < type_rank(h[2])

\* $sort: {hour: 1, sensor_type: 1}
RECURSIVE sorted_groups(_)
sorted_groups(gs) ==
    IF gs = {} THEN <<>>
    ELSE LET g == CHOOSE x \in gs : \A y \in gs \ {x} : group_less(x, y)
         IN  <<g>> \o sorted_groups(gs \ {g})

\* $group by (hour, type) with $avg, $sum, $min, $max, then $project with
\* $round to 2 places
hourly_row(docs, g) ==
    LET members == SelectSeq(docs, LAMBDA d : <<hour_of(d), Get(d, "type")>> = g)
        temps == [i \in 1..Len(members) |-> temperature_celsius(members[i])]
    IN  [hour |-> g[1],
         sensor_type |-> g[2],
         average_temperature_celsius |->
             RRound(RDiv(RSum(temps), RInt(Len(temps))), 100),
         min_temperature_celsius |-> RRound(RMin(temps), 100),
         max_temperature_celsius |-> RRound(RMax(temps), 100),
         readings_count |-> Len(members)]

average_temperature_by_hour(coll, t, offset, hours_back) ==
    LET docs == match_since(coll, start_time(t, offset, hours_back))
        gs == sorted_groups({<<hour_of(docs[i]), Get(docs[i], "type")>> :
                               i \in 1..Len(docs)})
    IN  [i \in 1..Len(gs) |-> hourly_row(docs, gs[i])]

\* The server rejects the pipeline when $subtract or $round meets a
\* temperature that is not a number; aggregate then raises OperationFailure.
aggregate_raises(docs) ==
    \E i \in 1..Len(docs) :
        /\ "temperature" \in DOMAIN docs[i]
        /\ docs[i].temperature = NotANumber

\* the try block of average_temperature_by_hour
hourly_try(coll, t, offset, hours_back) ==
    IF aggregate_raises(match_since(coll, start_time(t, offset, hours_back)))
    THEN Raise("OperationFailure")
    ELSE Returned(average_temperature_by_hour(coll, t, offset, hours_back))

\* Stored readings 1, 3, 24 and 25 hours old at the start.
HourlyDocs ==
    { [device_id |-> "sensor_01", type |-> "interior", temperature |-> 200,
       humidity |-> 40, light |-> 100, unit |-> "C", location |-> "Sala 1",
       timestamp |-> isoformat(StartClock - 1, TRUE)],
      [device_id |-> "sensor_02", type |-> "exterior", temperature |-> 500,
       light |-> 200, uv_index |-> 55, unit |-> "F", location |-> "Patio",
       timestamp |-> isoformat(StartClock - 3, TRUE)],
      [device_id |-> "sensor_03", type |-> "interior", temperature |-> 220,
       humidity |-> 40, light |-> 100, unit |-> "C", location |-> "Sala 2",
       timestamp |-> isoformat(StartClock - 24, TRUE)],
      [device_id |-> "sensor_02", type |-> "exterior", temperature |-> 680,
       light |-> 200, uv_index |-> 55, unit |-> "F", location |-> "Patio",
       timestamp |-> isoformat(StartClock - 25, TRUE)] }

HoursBackArgs == {2, 24}

\* The machine that runs the analysis is in any time zone.
InitHourly ==
    /\ now = StartClock
    /\ tz \in TzOffsets
    /\ genCall = NoCall
    /\ reading = NoReading
    /\ store = <<>>
    /\ call = NoCall
    /\ result = <<>>
    /\ log = FALSE
    /\ pc = "idle"
    /\ count = 0
    /\ max_readings = NoLimit
    /\ client = "none"
    /\ cur = NoReading
    /\ owner = "AdvancedAnalysis"
    /\ collection = "bound"
    /\ escaped = "none"
    /\ health = "ok"
    /\ batch = <<>>
    /\ calledAt = <<>>
    /\ lote = NoLote
    /\ fetched = <<>>

InsertHourlyDoc ==
    /\ call = NoCall
    /\ Len(store) < MaxDocs
    /\ \E d \in HourlyDocs : store' = insert_one(store, d)
    /\ UNCHANGED <<fetched, conVars, lotVars, now, tz, genVars, anaVars, sndVars>>

AverageTemperatureByHour ==
    /\ call = NoCall
    /\ \E h \in HoursBackArgs :
         LET r == method(collection, health, hourly_try(store, now, tz, h))
         IN  /\ call' = [op |-> "average_temperature_by_hour",
                         hours_back |-> h]
             /\ result' = r.ret
             /\ log' = r.raised
             /\ escaped' = r.escaped
    /\ owner = "AdvancedAnalysis"
    /\ UNCHANGED <<fetched, owner, collection, health, lotVars, now, tz, genVars,
                   store, sndVars>>

NextHourly == InsertHourlyDoc \/ AverageTemperatureByHour \/ AnalysisReturn

SpecHourly == InitHourly /\ [][NextHourly]_vars

(***************************************************************************)
(* AdvancedAnalysis.count_readings_by_sensor.  The pipeline meets the      *)
(* documents in the order the store presents them; a group is emitted when *)
(* its first document is met, and $sort keeps rows of equal count in that  *)
(* order.                                                                  *)
(***************************************************************************)
\* the distinct values of a sequence, by first appearance
RECURSIVE first_seen(_, _)
first_seen(keys, seen) ==
    IF keys = <<>> THEN <<>>
    ELSE IF Head(keys) \in seen THEN first_seen(Tail(keys), seen)
    ELSE <<Head(keys)>> \o first_seen(Tail(keys), seen \cup {Head(keys)})

\* (mutant) $first in the place of $min
iso_min_first(s) == s[1]

\* $min and $max of the timestamp strings
RECURSIVE iso_min(_)
iso_min(s) ==
    IF Len(s) = 1 THEN s[1]
    ELSE LET m == iso_min(Tail(s)) IN IF iso_less(m, s[1]) THEN m ELSE s[1]

RECURSIVE iso_max(_)
iso_max(s) ==
    IF Len(s) = 1 THEN s[1]
    ELSE LET m == iso_max(Tail(s)) IN IF iso_less(s[1], m) THEN m ELSE s[1]

\* $sort: {key: -1}
RECURSIVE insert_by_desc(_, _, _)
insert_by_desc(sorted, x, key) ==
    IF sorted = <<>> THEN <<x>>
    ELSE IF sorted[1][key] >= x[key]
         THEN <<sorted[1]>> \o insert_by_desc(Tail(sorted), x, key)
         ELSE <<x>> \o sorted

RECURSIVE sort_by_desc(_, _)
sort_by_desc(s, key) ==
    IF s = <<>> THEN <<>>
    ELSE insert_by_desc(sort_by_desc(SubSeq(s, 1, Len(s) - 1), key),
                        s[Len(s)], key)

\* (mutant) $group by type instead of device_id
group_id_by_type(d) == Get(d, "type")

\* $group _id: "$device_id"; a document without the field falls in the
\* group of null
group_id(d) == Get(d, "device_id")

\* $group and $project of one sensor
sensor_row(coll, id) ==
    LET members == SelectSeq(coll, LAMBDA d : group_id(d) = id)
        stamps == [i \in 1..Len(members) |-> members[i].timestamp]
    IN  [device_id |-> id,
         total_readings |-> Len(members),
         sensor_type |-> Get(members[1], "type"),
         location |-> Get(members[1], "location"),
         first_reading |-> iso_min(stamps),
         last_reading |-> iso_max(stamps)]

count_readings_by_sensor(coll) ==
    LET ids == first_seen([i \in 1..Len(coll) |-> group_id(coll[i])], {})
    IN  sort_by_desc([i \in 1..Len(ids) |-> sensor_row(coll, ids[i])],
                     "total_readings")

(***************************************************************************)
(* connect() of AdvancedAnalysis, IoTQueries and MongoSender: MongoClient  *)
(* parses the URI, ping selects a server within 5 seconds.                 *)
(***************************************************************************)
Clients == {"AdvancedAnalysis", "IoTQueries", "MongoSender"}

\* what the caller's environment is when connect() runs
Environments == {"reachable", "unreachable", "selection_timeout", "malformed_uri"}

\* the exception MongoClient(...) or ping raises
connect_raises(env) ==
    CASE env = "reachable" -> "none"
      [] env = "unreachable" -> "ServerSelectionTimeoutError"
      [] env = "selection_timeout" -> "ServerSelectionTimeoutError"
      [] env = "malformed_uri" -> "InvalidURI"

\* the except clause of connect
connect_catches(class, exc) ==
    IF class = "MongoSender"
    THEN exc \in ConnectionFailures \cup {"ServerSelectionTimeoutError"}
    ELSE except_ConnectionFailure(exc)

connect(class, env) ==
    LET exc == connect_raises(env)
    IN  IF exc = "none"
        THEN [ret |-> TRUE, bound |-> TRUE, raised |-> FALSE, escaped |-> "none"]
        ELSE IF connect_catches(class, exc)
        THEN [ret |-> FALSE, bound |-> FALSE, raised |-> TRUE, escaped |-> "none"]
        ELSE [ret |-> FALSE, bound |-> FALSE, raised |-> FALSE, escaped |-> exc]

(***************************************************************************)
(* A reading client over a store other writers fill: it connects, the      *)
(* store fails and recovers, and the client's methods are called in any    *)
(* order.                                                                  *)
(***************************************************************************)
\* the largest number of documents the store holds under SpecAnalysis
MaxStored == 3

AnalysisDocs ==
    { [device_id |-> "sensor_01", type |-> "interior", temperature |-> 200,
       humidity |-> 40, light |-> 100, unit |-> "C", location |-> "Sala 1",
       timestamp |-> isoformat(StartClock - 1, TRUE)],
      [device_id |-> "sensor_01", type |-> "interior", temperature |-> 1000,
       humidity |-> 60, light |-> 300, unit |-> "C", location |-> "Sala 2",
       timestamp |-> isoformat(StartClock - 25, TRUE)],
      [device_id |-> "sensor_02", type |-> "exterior", temperature |-> 1310,
       light |-> 200, uv_index |-> 55, unit |-> "F", location |-> "Patio",
       timestamp |-> isoformat(StartClock - 3, TRUE)],
      [type |-> "interior", temperature |-> 200,
       humidity |-> 40, light |-> 100, unit |-> "C", location |-> "Sala 1",
       timestamp |-> isoformat(StartClock - 1, TRUE)],
      [device_id |-> "sensor_03", type |-> "exterior", temperature |-> NotANumber,
       light |-> 200, uv_index |-> 55, unit |-> "F", location |-> "Patio",
       timestamp |-> isoformat(StartClock - 3, TRUE)] }

AnalysisFields == {"temperature", "humidity"}
AnalysisThresholds == {0, 10}
AnalysisHoursBack == {2, 48}
StoreFaults == {"AutoReconnect", "OperationFailure"}

InitAnalysis ==
    /\ now = StartClock
    /\ tz \in TzOffsets
    /\ genCall = NoCall
    /\ reading = NoReading
    /\ store = <<>>
    /\ call = NoCall
    /\ result = <<>>
    /\ log = FALSE
    /\ pc = "idle"
    /\ count = 0
    /\ max_readings = NoLimit
    /\ client = "none"
    /\ cur = NoReading
    /\ owner \in Clients
    /\ collection = None
    /\ escaped = "none"
    /\ health = "ok"
    /\ batch = <<>>
    /\ calledAt = <<>>
    /\ lote = NoLote
    /\ fetched = <<>>

InsertAnalysisDoc ==
    /\ call = NoCall
    /\ health = "ok"
    /\ Len(store) < MaxStored
    /\ \E d \in AnalysisDocs : store' = insert_one(store, d)
    /\ UNCHANGED <<fetched, conVars, lotVars, now, tz, genVars, anaVars, sndVars>>

StoreFails ==
    /\ call = NoCall
    /\ health = "ok"
    /\ \E exc \in StoreFaults : health' = exc
    /\ UNCHANGED <<fetched, owner, collection, escaped, lotVars, now, tz, genVars,
                   store, anaVars, sndVars>>

StoreRecovers ==
    /\ call = NoCall
    /\ health # "ok"
    /\ health' = "ok"
    /\ UNCHANGED <<fetched, owner, collection, escaped, lotVars, now, tz, genVars,
                   store, anaVars, sndVars>>

Connect ==
    /\ call = NoCall
    /\ \E env \in Environments :
         LET r == connect(owner, env)
         IN  /\ env = "reachable" => health = "ok"
             /\ call' = [op |-> "connect", env |-> env, returned |-> r.ret]
             /\ collection' = IF r.bound THEN "bound" ELSE collection
             /\ log' = r.raised
             /\ escaped' = r.escaped
    /\ result' = <<>>
    /\ UNCHANGED <<fetched, owner, health, lotVars, now, tz, genVars, store, sndVars>>

CountReadingsBySensor ==
    /\ call = NoCall
    /\ owner = "AdvancedAnalysis"
    /\ LET r == method(collection, health,
                       Returned(count_readings_by_sensor(store)))
       IN  /\ call' = [op |-> "count_readings_by_sensor"]
           /\ result' = r.ret
           /\ log' = r.raised
           /\ escaped' = r.escaped
    /\ UNCHANGED <<fetched, owner, collection, health, lotVars, now, tz, genVars,
                   store, sndVars>>

AnalysisDetectOutliers ==
    /\ call = NoCall
    /\ owner = "AdvancedAnalysis"
    /\ \E field \in AnalysisFields, z \in AnalysisThresholds :
         LET r == method(collection, health, detect_outliers(store, field, z))
         IN  /\ call' = [op |-> "detect_outliers", field |-> field,
                         z_threshold |-> z]
             /\ result' = r.ret
             /\ log' = r.raised
             /\ escaped' = r.escaped
    /\ UNCHANGED <<fetched, owner, collection, health, lotVars, now, tz, genVars,
                   store, sndVars>>

AnalysisAverageByHour ==
    /\ call = NoCall
    /\ owner = "AdvancedAnalysis"
    /\ \E h \in AnalysisHoursBack :
         LET r == method(collection, health, hourly_try(store, now, tz, h))
         IN  /\ call' = [op |-> "average_temperature_by_hour",
                         hours_back |-> h]
             /\ result' = r.ret
             /\ log' = r.raised
             /\ escaped' = r.escaped
    /\ UNCHANGED <<fetched, owner, collection, health, lotVars, now, tz, genVars,
                   store, sndVars>>

(***************************************************************************)
(* IoTQueries: the five queries of queries.py.                             *)
(***************************************************************************)
\* .sort("timestamp", -1)
RECURSIVE insert_newest(_, _)
insert_newest(sorted, d) ==
    IF sorted = <<>> THEN <<d>>
    ELSE IF ~iso_less(sorted[1].timestamp, d.timestamp)
         THEN <<sorted[1]>> \o insert_newest(Tail(sorted), d)
         ELSE <<d>> \o sorted

\* (mutant) the cursor left in the store's order
sort_newest_first_skipped(s) == s

RECURSIVE sort_newest_first(_)
sort_newest_first(s) ==
    IF s = <<>> THEN <<>>
    ELSE insert_newest(sort_newest_first(SubSeq(s, 1, Len(s) - 1)), s[Len(s)])

\* .limit(n): 0 is no limit, a negative n limits to its absolute value
limit(s, n) ==
    IF n = 0 \/ Abs(n) >= Len(s) THEN s ELSE SubSeq(s, 1, Abs(n))

get_last_n_readings(coll, n) == limit(sort_newest_first(coll), n)

filter_exterior_sensors(coll) ==
    sort_newest_first(SelectSeq(coll, LAMBDA d : Get(d, "type") = "exterior"))

get_readings_by_location(coll, location) ==
    sort_newest_first(SelectSeq(coll, LAMBDA d : Get(d, "location") = location))

\* $group by type with $avg, $sum, $min, $max; $project with $round
type_row(coll, type) ==
    LET members == SelectSeq(coll, LAMBDA d : Get(d, "type") = type)
        temps == [i \in 1..Len(members) |-> temperature_celsius(members[i])]
    IN  [sensor_type |-> type,
         average_temperature_celsius |->
             RRound(RDiv(RSum(temps), RInt(Len(temps))), 100),
         min_temperature_celsius |-> RRound(RMin(temps), 100),
         max_temperature_celsius |-> RRound(RMax(temps), 100),
         total_readings |-> Len(members)]

\* the try block of get_average_temperature_by_type; $sort: {sensor_type: 1}
get_average_temperature_by_type(coll) ==
    IF aggregate_raises(coll) THEN Raise("OperationFailure")
    ELSE LET ts == sorted_groups({<<0, Get(coll[i], "type")>> :
                                    i \in 1..Len(coll)})
         IN  Returned([i \in 1..Len(ts) |-> type_row(coll, ts[i][2])])

\* $group by device_id, $project, $sort: {readings_count: -1}
get_readings_count_by_sensor(coll) ==
    LET ids == first_seen([i \in 1..Len(coll) |-> group_id(coll[i])], {})
        row(id) ==
            LET members == SelectSeq(coll, LAMBDA d : group_id(d) = id)
            IN  [device_id |-> id,
                 readings_count |-> Len(members),
                 sensor_type |-> Get(members[1], "type"),
                 location |-> Get(members[1], "location")]
    IN  sort_by_desc([i \in 1..Len(ids) |-> row(ids[i])], "readings_count")

LastNArgs == {1, 2}
LocationArgs == {"Sala 1", "Patio"}

\* the call and its outcome, left in the variables of the last call
answered(c, r) ==
    /\ call' = c
    /\ result' = r.ret
    /\ log' = r.raised
    /\ escaped' = r.escaped
    /\ UNCHANGED <<fetched, owner, collection, health, lotVars, now, tz, genVars,
                   store, sndVars>>

\* (mutant) the documents read are removed from the collection
GetLastNReadings_consuming ==
    /\ call = NoCall
    /\ owner = "IoTQueries"
    /\ \E n \in LastNArgs :
         LET r == method(collection, health, Returned(get_last_n_readings(store, n)))
         IN  /\ call' = [op |-> "get_last_n_readings", n |-> n]
             /\ result' = r.ret
             /\ log' = r.raised
             /\ escaped' = r.escaped
             /\ store' = SelectSeq(store, LAMBDA d :
                            \A i \in 1..Len(r.ret) : r.ret[i] # d)
    /\ UNCHANGED <<fetched, owner, collection, health, lotVars, now, tz, genVars,
                   sndVars>>

GetLastNReadings ==
    /\ call = NoCall
    /\ owner = "IoTQueries"
    /\ \E n \in LastNArgs :
         answered([op |-> "get_last_n_readings", n |-> n],
                  method(collection, health,
                         Returned(get_last_n_readings(store, n))))

GetAverageTemperatureByType ==
    /\ call = NoCall
    /\ owner = "IoTQueries"
    /\ answered([op |-> "get_average_temperature_by_type"],
                method(collection, health,
                       get_average_temperature_by_type(store)))

FilterExteriorSensors ==
    /\ call = NoCall
    /\ owner = "IoTQueries"
    /\ answered([op |-> "filter_exterior_sensors"],
                method(collection, health,
                       Returned(filter_exterior_sensors(store))))

GetReadingsByLocation ==
    /\ call = NoCall
    /\ owner = "IoTQueries"
    /\ \E location \in LocationArgs :
         answered([op |-> "get_readings_by_location", location |-> location],
                  method(collection, health,
                         Returned(get_readings_by_location(store, location))))

GetReadingsCountBySensor ==
    /\ call = NoCall
    /\ owner = "IoTQueries"
    /\ answered([op |-> "get_readings_count_by_sensor"],
                method(collection, health,
                       Returned(get_readings_count_by_sensor(store))))

(***************************************************************************)
(* MongoSender.send_reading, called on its own.                            *)
(***************************************************************************)
\* (mutant) the except branch answers True
send_reading_optimistic(coll_state, fault, coll, doc) ==
    IF coll_state # None /\ fault = "ok"
    THEN [ret |-> TRUE, store |-> insert_one(coll, doc), raised |-> FALSE,
          escaped |-> "none"]
    ELSE [ret |-> TRUE, store |-> coll, raised |-> TRUE, escaped |-> "none"]

\* self.collection.insert_one(reading) raises AttributeError on a collection
\* that is still None, and what the store raises when it is not healthy
send_reading(coll_state, fault, coll, doc) ==
    LET exc == IF coll_state = None THEN "AttributeError" ELSE fault
    IN  IF exc = "ok"
        THEN [ret |-> TRUE, store |-> insert_one(coll, doc), raised |-> FALSE,
              escaped |-> "none"]
        ELSE IF except_Exception(exc)
        THEN [ret |-> FALSE, store |-> coll, raised |-> TRUE, escaped |-> "none"]
        ELSE [ret |-> FALSE, store |-> coll, raised |-> FALSE, escaped |-> exc]

SendReading ==
    /\ call = NoCall
    /\ owner = "MongoSender"
    /\ Len(store) < MaxStored
    /\ \E d \in AnalysisDocs :
         LET r == send_reading(collection, health, store, d)
         IN  /\ call' = [op |-> "send_reading", reading |-> d, returned |-> r.ret]
             /\ store' = r.store
             /\ log' = r.raised
             /\ escaped' = r.escaped
    /\ result' = <<>>
    /\ UNCHANGED <<fetched, owner, collection, health, lotVars, now, tz, genVars, sndVars>>

NextAnalysis ==
    \/ InsertAnalysisDoc
    \/ StoreFails
    \/ StoreRecovers
    \/ Connect
    \/ CountReadingsBySensor
    \/ AnalysisDetectOutliers
    \/ AnalysisAverageByHour
    \/ GetLastNReadings
    \/ GetAverageTemperatureByType
    \/ FilterExteriorSensors
    \/ GetReadingsByLocation
    \/ GetReadingsCountBySensor
    \/ SendReading
    \/ AnalysisReturn

SpecAnalysis == InitAnalysis /\ [][NextAnalysis]_vars

(***************************************************************************)
(* The sender's run, and the analyzer run on the collection once the       *)
(* sender has returned.                                                    *)
(***************************************************************************)
\* run, connect() raising: MongoClient rejects the URI, no client object is
\* kept, and the exception leaves run.
RunConnectRaises ==
    /\ pc = "idle"
    /\ \E m \in MaxReadingsArgs : max_readings' = m
    /\ \E env \in Environments :
         /\ connect("MongoSender", env).escaped # "none"
         /\ escaped' = connect("MongoSender", env).escaped
    /\ pc' = "raised"
    /\ UNCHANGED <<fetched, owner, collection, health, lotVars, now, tz, genVars, store,
                   anaVars, count, client, cur>>

AnalyzeAfterRun ==
    /\ pc = "done"
    /\ Connect \/ CountReadingsBySensor \/ AnalysisReturn

NextSend ==
    \/ RunConnect
    \/ RunConnectFails
    \/ RunConnectRaises
    \/ RunGenerate
    \/ RunSendOk
    \/ RunSendFails
    \/ RunCheck
    \/ RunSleep
    \/ RunInterrupt
    \/ RunFinally
    \/ AnalyzeAfterRun

SpecSend == Init /\ [][NextSend]_vars

(***************************************************************************)
(* medir_tiempo_lote(num_documentos): the documents are generated first,   *)
(* one generator call each, then inserted one by one; the clock runs all   *)
(* the while.                                                              *)
(***************************************************************************)
\* the largest num_documentos
MaxLote == 3

LoteStart ==
    /\ lote.pc = "idle"
    /\ \E n \in 1..MaxLote :
         lote' = [lote EXCEPT !.pc = "generate", !.num_documentos = n]
    /\ UNCHANGED <<fetched, conVars, batch, calledAt, now, tz, genVars, store, anaVars,
                   sndVars>>

\* (mutant) every document of the batch stamped with the instant of the
\* first call
LoteGenerate_batch_start ==
    /\ lote.pc = "generate"
    /\ \E k \in {"interior", "exterior"} :
         \E rnd \in (IF k = "interior" THEN SenderInteriorRnd
                                       ELSE SenderExteriorRnd) :
            /\ rnd.device = 1
            /\ batch' = Append(batch, generate_random_reading(k, rnd,
                            IF calledAt = <<>> THEN now ELSE calledAt[1]))
    /\ calledAt' = Append(calledAt, now)
    /\ lote' = [lote EXCEPT !.pc = IF Len(batch) + 1 = lote.num_documentos
                                   THEN "insert" ELSE "generate"]
    /\ UNCHANGED <<fetched, conVars, now, tz, genVars, store, anaVars, sndVars>>

\* one element of [simulator.generate_random_reading() for _ in range(n)]
LoteGenerate ==
    /\ lote.pc = "generate"
    /\ \E k \in {"interior", "exterior"} :
         \E rnd \in (IF k = "interior" THEN SenderInteriorRnd
                                       ELSE SenderExteriorRnd) :
            /\ rnd.device = 1
            /\ batch' = Append(batch, generate_random_reading(k, rnd, now))
    /\ calledAt' = Append(calledAt, now)
    /\ lote' = [lote EXCEPT !.pc = IF Len(batch) + 1 = lote.num_documentos
                                   THEN "insert" ELSE "generate"]
    /\ UNCHANGED <<fetched, conVars, now, tz, genVars, store, anaVars, sndVars>>

\* the position after document lote.next has been tried
after_insert(l, inserted) ==
    [l EXCEPT !.next = l.next + 1,
              !.insertados = l.insertados + inserted,
              !.pc = IF l.next = l.num_documentos THEN "done" ELSE "insert"]

\* collection.insert_one(doc); insertados += 1
LoteInsertOk ==
    /\ lote.pc = "insert"
    /\ store' = insert_one(store, batch[lote.next])
    /\ lote' = after_insert(lote, 1)
    /\ UNCHANGED <<fetched, conVars, batch, calledAt, now, tz, genVars, anaVars, sndVars>>

\* collection.insert_one(doc) raising: the error is printed, the loop goes on
LoteInsertFails ==
    /\ lote.pc = "insert"
    /\ lote' = after_insert(lote, 0)
    /\ UNCHANGED <<fetched, conVars, batch, calledAt, now, tz, genVars, store, anaVars,
                   sndVars>>

\* time passes between any two steps of the measurement
LoteTick ==
    /\ lote.pc \in {"generate", "insert"}
    /\ Tick

NextLote ==
    \/ LoteStart
    \/ LoteGenerate
    \/ LoteInsertOk
    \/ LoteInsertFails
    \/ LoteTick

SpecLote == Init /\ [][NextLote]_vars

(***************************************************************************)
(* The sender's run left to itself: no user interrupt.  Every step of the  *)
(* loop is taken in the end, and a store that accepts inserts again and    *)
(* again accepts one of the sender's in the end.                           *)
(***************************************************************************)
NextRun ==
    \/ RunConnect
    \/ RunConnectFails
    \/ RunConnectRaises
    \/ RunGenerate
    \/ RunSendOk
    \/ RunSendFails
    \/ RunCheck
    \/ RunSleep
    \/ RunFinally

SpecRunFair ==
    /\ Init
    /\ [][NextRun]_vars
    /\ WF_vars(RunGenerate)
    /\ WF_vars(RunSendOk \/ RunSendFails)
    /\ SF_vars(RunSendOk)
    /\ WF_vars(RunCheck)
    /\ WF_vars(RunSleep)
    /\ WF_vars(RunFinally)

(***************************************************************************)
(* detect_outliers() with its default arguments, on samples of up to       *)
(* MaxSample documents.                                                    *)
(***************************************************************************)
MaxSample == 9

\* z_threshold: float = 2.5, in tenths
DefaultZThreshold == 25

SampleDocs ==
    { [device_id |-> "sensor_01", type |-> "interior", temperature |-> 200,
       unit |-> "C", timestamp |-> isoformat(StartClock, TRUE)],
      [device_id |-> "sensor_03", type |-> "interior", temperature |-> 1000,
       unit |-> "C", timestamp |-> isoformat(StartClock, TRUE)],
      [device_id |-> "sensor_04", type |-> "exterior", unit |-> "F",
       timestamp |-> isoformat(StartClock, TRUE)] }

SampleInsert ==
    /\ call = NoCall
    /\ Len(store) < MaxSample
    /\ \E d \in SampleDocs : store' = insert_one(store, d)
    /\ UNCHANGED <<fetched, conVars, lotVars, now, tz, genVars, anaVars, sndVars>>

\* analyzer.detect_outliers()
DetectOutliersDefault ==
    /\ call = NoCall
    /\ LET r == method(collection, health,
                       detect_outliers(store, "temperature", DefaultZThreshold))
       IN  /\ call' = [op |-> "detect_outliers", field |-> "temperature",
                       z_threshold |-> DefaultZThreshold]
           /\ result' = r.ret
           /\ log' = r.raised
           /\ escaped' = r.escaped
    /\ UNCHANGED <<fetched, owner, collection, health, lotVars, now, tz, genVars,
                   store, sndVars>>

NextSample == SampleInsert \/ DetectOutliersDefault \/ AnalysisReturn

SpecSample == InitConnected /\ [][NextSample]_vars

(***************************************************************************)
(* detect_outliers beside a running sender: the fetch and the computation  *)
(* are two steps, and documents are inserted between them.                 *)
(***************************************************************************)
ConcurrentInsert ==
    /\ Len(store) < MaxStored
    /\ \E d \in OutlierDocs : store' = insert_one(store, d)
    /\ UNCHANGED <<fetched, conVars, lotVars, now, tz, genVars, anaVars, sndVars>>

\* all_readings = list(self.collection.find({}, projection))
OutliersFetch ==
    /\ call = NoCall
    /\ \E field \in AnalysisFields, z \in AnalysisThresholds :
         /\ call' = [op |-> "detect_outliers", field |-> field,
                     z_threshold |-> z, pc |-> "fetched"]
         /\ fetched' = find(store, ProjectedKeys(field))
    /\ UNCHANGED <<result, log, conVars, lotVars, now, tz, genVars, store,
                   sndVars>>

\* (mutant) the collection read again for the computation
OutliersCompute_refetching ==
    /\ call.op = "detect_outliers"
    /\ call.pc = "fetched"
    /\ LET r == detect_outliers(store, call.field, call.z_threshold)
       IN  /\ result' = r.ret
           /\ log' = r.raised
           /\ escaped' = r.escaped
    /\ call' = [call EXCEPT !.pc = "returned"]
    /\ UNCHANGED <<fetched, owner, collection, health, lotVars, now, tz,
                   genVars, store, sndVars>>

\* the statistics, the z-scores and the sort, on all_readings
OutliersCompute ==
    /\ call.op = "detect_outliers"
    /\ call.pc = "fetched"
    /\ LET r == outliers_from(fetched, call.field, call.z_threshold)
       IN  /\ result' = r.ret
           /\ log' = r.raised
           /\ escaped' = r.escaped
    /\ call' = [call EXCEPT !.pc = "returned"]
    /\ UNCHANGED <<fetched, owner, collection, health, lotVars, now, tz,
                   genVars, store, sndVars>>

\* the caller is done with the result
OutliersReturn ==
    /\ call.op = "detect_outliers"
    /\ call.pc = "returned"
    /\ call' = NoCall
    /\ result' = <<>>
    /\ log' = FALSE
    /\ fetched' = <<>>
    /\ UNCHANGED <<conVars, lotVars, now, tz, genVars, store, sndVars>>

NextConcurrent ==
    \/ ConcurrentInsert
    \/ OutliersFetch
    \/ OutliersCompute
    \/ OutliersReturn

SpecConcurrent == InitConnected /\ [][NextConcurrent]_vars

(***************************************************************************)
(* test_connection.py: the connection test, with its probe document.  A    *)
(* sender may insert while the test runs.                                  *)
(***************************************************************************)
\* the ObjectId the driver gives a document without _id: one no stored
\* document has
ObjectId(coll) ==
    LET used == {coll[i]._id : i \in {j \in 1..Len(coll) : "_id" \in DOMAIN coll[j]}}
    IN  CHOOSE id \in 1..(Cardinality(used) + 1) : id \notin used

\* test_doc, with the _id insert_one adds to it
test_doc(id) ==
    [test |-> TRUE, timestamp |-> <<"2025-01-15T00:00:00Z">>, _id |-> id]

\* collection.delete_one({key: value}): the first document the filter matches
delete_one(coll, key, value) ==
    LET hits == {i \in 1..Len(coll) : key \in DOMAIN coll[i] /\ coll[i][key] = value}
    IN  IF hits = {} THEN coll
        ELSE LET k == CHOOSE i \in hits : \A j \in hits : i <= j
             IN  SubSeq(coll, 1, k - 1) \o SubSeq(coll, k + 1, Len(coll))

\* MongoClient, ping, list_database_names, count_documents, find_one: any of
\* them raising ends the test with False
TestConnectionOpen ==
    /\ call = NoCall
    /\ Len(store) < MaxStored
    /\ \E env \in Environments, fault \in {"ok"} \cup StoreFaults :
         call' = IF env = "reachable" /\ fault = "ok"
                 THEN [op |-> "test_connection", pc |-> "insert",
                       before |-> store, inserted_id |-> 0, returned |-> None]
                 ELSE [op |-> "test_connection", pc |-> "returned",
                       before |-> store, inserted_id |-> 0, returned |-> FALSE]
    /\ UNCHANGED <<fetched, conVars, lotVars, now, tz, genVars, store, result,
                   log, sndVars>>

\* result = collection.insert_one(test_doc)
TestConnectionInsert ==
    /\ call.op = "test_connection"
    /\ call.pc = "insert"
    /\ \E fault \in {"ok"} \cup StoreFaults :
         IF fault = "ok"
         THEN LET id == ObjectId(store)
              IN  /\ store' = store \o <<test_doc(id)>>
                  /\ call' = [call EXCEPT !.pc = "delete", !.inserted_id = id]
         ELSE /\ store' = store
              /\ call' = [call EXCEPT !.pc = "returned", !.returned = FALSE]
    /\ UNCHANGED <<fetched, conVars, lotVars, now, tz, genVars, result, log,
                   sndVars>>

\* (mutant) the probe looked up by its test flag
TestConnectionDelete_by_flag ==
    /\ call.op = "test_connection"
    /\ call.pc = "delete"
    /\ \E fault \in {"ok"} \cup StoreFaults :
         IF fault = "ok"
         THEN /\ store' = delete_one(store, "test", TRUE)
              /\ call' = [call EXCEPT !.pc = "close"]
         ELSE /\ store' = store
              /\ call' = [call EXCEPT !.pc = "returned", !.returned = FALSE]
    /\ UNCHANGED <<fetched, conVars, lotVars, now, tz, genVars, result, log,
                   sndVars>>

\* if result.inserted_id: collection.delete_one({"_id": result.inserted_id})
TestConnectionDelete ==
    /\ call.op = "test_connection"
    /\ call.pc = "delete"
    /\ \E fault \in {"ok"} \cup StoreFaults :
         IF fault = "ok"
         THEN /\ store' = delete_one(store, "_id", call.inserted_id)
              /\ call' = [call EXCEPT !.pc = "close"]
         ELSE /\ store' = store
              /\ call' = [call EXCEPT !.pc = "returned", !.returned = FALSE]
    /\ UNCHANGED <<fetched, conVars, lotVars, now, tz, genVars, result, log,
                   sndVars>>

\* client.close(); return True
TestConnectionClose ==
    /\ call.op = "test_connection"
    /\ call.pc = "close"
    /\ call' = [call EXCEPT !.pc = "returned", !.returned = TRUE]
    /\ UNCHANGED <<fetched, conVars, lotVars, now, tz, genVars, store, result,
                   log, sndVars>>

\* the script ends
TestConnectionExit ==
    /\ call.op = "test_connection"
    /\ call.pc = "returned"
    /\ call' = NoCall
    /\ UNCHANGED <<fetched, conVars, lotVars, now, tz, genVars, store, result,
                   log, sndVars>>

NextTest ==
    \/ ConcurrentInsert
    \/ TestConnectionOpen
    \/ TestConnectionInsert
    \/ TestConnectionDelete
    \/ TestConnectionClose
    \/ TestConnectionExit

SpecTest == Init /\ [][NextTest]_vars

(***************************************************************************)
(* C1. Every reading generate_interior_reading returns has type            *)
(* "interior", unit "C", a humidity in [30, 70], a light in [100, 500], no *)
(* uv_index field and a temperature in [18.0, 28.0].                       *)
(***************************************************************************)
C1_InteriorShape ==
    genCall.op = "generate_interior_reading" =>
        /\ reading.type = "interior"
        /\ reading.unit = "C"
        /\ "humidity" \in DOMAIN reading
        /\ reading.humidity >= 30 /\ reading.humidity <= 70
        /\ "light" \in DOMAIN reading
        /\ reading.light >= 100 /\ reading.light <= 500
        /\ "uv_index" \notin DOMAIN reading
        /\ reading.temperature >= 180 /\ reading.temperature <= 280

\* an interior reading at the upper end of every range
C1_Witness ==
    /\ genCall.op = "generate_interior_reading"
    /\ reading.temperature = 280
    /\ reading.humidity = 70
    /\ reading.light = 500

(***************************************************************************)
(* C2. Every reading generate_exterior_reading returns has type            *)
(* "exterior", unit "F", a uv_index in [0.0, 11.0], a light in             *)
(* [200, 1000], no humidity field, and a Fahrenheit temperature in         *)
(* [41.0, 95.0], whose Celsius equivalent (F - 32) / 1.8 is in [5.0, 35.0].*)
(***************************************************************************)
C2_ExteriorShape ==
    genCall.op = "generate_exterior_reading" =>
        /\ reading.type = "exterior"
        /\ reading.unit = "F"
        /\ "uv_index" \in DOMAIN reading
        /\ reading.uv_index >= 0 /\ reading.uv_index <= 110
        /\ "light" \in DOMAIN reading
        /\ reading.light >= 200 /\ reading.light <= 1000
        /\ "humidity" \notin DOMAIN reading
        /\ reading.temperature >= 410 /\ reading.temperature <= 950
        \* 5.0 <= (F - 32) / 1.8 <= 35.0, in tenths and cleared of the division
        /\ 50 * 18 <= (reading.temperature - 320) * 10
        /\ (reading.temperature - 320) * 10 <= 350 * 18

\* an exterior reading drawn at 5.25 C, stored as 41.4 F or 41.5 F
C2_Witness ==
    /\ genCall.op = "generate_exterior_reading"
    /\ reading.temperature \in {414, 415}
    /\ reading.uv_index = 110

(***************************************************************************)
(* C3. After any sequence of sender inserts into an initially empty store, *)
(* every stored document carries exactly one of humidity and uv_index:     *)
(* humidity is present iff type is interior iff unit is C, and uv_index is *)
(* present iff type is exterior iff unit is F.                             *)
(***************************************************************************)
C3_StoredShape ==
    \A i \in 1..Len(store) :
        LET d == store[i]
            hum == "humidity" \in DOMAIN d
            uv == "uv_index" \in DOMAIN d
        IN  /\ hum # uv
            /\ hum <=> d.type = "interior"
            /\ d.type = "interior" <=> d.unit = "C"
            /\ uv <=> d.type = "exterior"
            /\ d.type = "exterior" <=> d.unit = "F"

\* a run that has stored a reading of each kind
C3_Witness ==
    /\ pc = "done"
    /\ \E i, j \in 1..Len(store) :
          store[i].type = "interior" /\ store[j].type = "exterior"

(***************************************************************************)
(* C4 as stated. For every call of generate_interior_reading and           *)
(* generate_exterior_reading, with or without a device_id argument, the    *)
(* returned device_id belongs to the family's pool.                        *)
(***************************************************************************)
C4_DevicePoolAlways ==
    /\ genCall.op = "generate_interior_reading"
          => reading.device_id \in Range(interior_sensors)
    /\ genCall.op = "generate_exterior_reading"
          => reading.device_id \in Range(exterior_sensors)

(***************************************************************************)
(* C4 amended. A call that passes no device_id returns a device_id of the  *)
(* family's pool, and the pools are disjoint; a call that passes a         *)
(* device_id returns that very id, whatever pool it belongs to.            *)
(***************************************************************************)
C4_DevicePoolUnlessOverride ==
    /\ Range(interior_sensors) \cap Range(exterior_sensors) = {}
    /\ genCall.op # "none" =>
          IF genCall.device_id = None
          THEN /\ reading.type = "interior"
                     => reading.device_id \in {"sensor_01", "sensor_03", "sensor_05"}
               /\ reading.type = "exterior"
                     => reading.device_id \in {"sensor_02", "sensor_04", "sensor_06"}
          ELSE reading.device_id = genCall.device_id

\* an interior reading carrying the id of an exterior sensor
C4_Witness ==
    /\ genCall.op = "generate_interior_reading"
    /\ genCall.device_id = "sensor_02"
    /\ reading.type = "interior"
    /\ reading.device_id = "sensor_02"

(***************************************************************************)
(* C5. average_temperature_by_hour(hours_back) includes a stored reading   *)
(* in its summary if and only if the reading's UTC instant is at or after  *)
(* the invocation instant minus hours_back hours, in every local time zone *)
(* of the machine: the readings_count of each (hour, type) row is the      *)
(* number of stored readings of that hour and type inside the window, and  *)
(* there is no row for a group with none.                                  *)
(***************************************************************************)
InstantOf(d) == d.timestamp[1] * 24 + d.timestamp[2]

InWindow(d, hours_back) == InstantOf(d) >= now - hours_back

CountedIn(rows, hour, type) ==
    LET hits == {i \in 1..Len(rows) :
                    rows[i].hour = hour /\ rows[i].sensor_type = type}
    IN  IF hits = {} THEN 0 ELSE rows[CHOOSE i \in hits : TRUE].readings_count

C5_WindowIsUtcInstant ==
    call.op = "average_temperature_by_hour" =>
        \A hour \in 0..23, type \in {"interior", "exterior"} :
            CountedIn(result, hour, type) =
                Cardinality({i \in 1..Len(store) :
                                /\ store[i].timestamp[2] = hour
                                /\ store[i].type = type
                                /\ InWindow(store[i], call.hours_back)})

(***************************************************************************)
(* What the outlier claims speak of, stated from the store alone: the      *)
(* readings that carry the field, their values in Celsius, the mean and    *)
(* the sample variance of these values.                                    *)
(***************************************************************************)
Carriers(field) == SelectSeq(store, LAMBDA d : field \in DOMAIN d)

\* (v - 32) / 1.8 for a Fahrenheit temperature, the stored value otherwise
InCelsius(d, field) ==
    IF field = "temperature" /\ "unit" \in DOMAIN d /\ d.unit = "F"
    THEN Rat(d.temperature - 320, 18)
    ELSE IF field \in {"temperature", "uv_index"} THEN Rat(d[field], 10)
    ELSE Rat(d[field], 1)

CelsiusValues(field) ==
    [i \in 1..Len(Carriers(field)) |-> InCelsius(Carriers(field)[i], field)]

Squares(vals) == [i \in 1..Len(vals) |-> RMul(vals[i], vals[i])]

SampleMean(field) ==
    RDiv(RSum(CelsiusValues(field)), RInt(Len(CelsiusValues(field))))

\* (sum of squares - n mean^2) / (n - 1)
SampleVariance(field) ==
    LET vals == CelsiusValues(field)
        n == Len(vals)
        mu == SampleMean(field)
    IN  RDiv(RSub(RSum(Squares(vals)), RMul(RInt(n), RMul(mu, mu))), RInt(n - 1))

\* |v - mean| / s > z, with z in tenths: z < 0, or (v - mean)^2 > z^2 s^2
ZScoreAbove(d, field, z) ==
    LET dev == RSub(InCelsius(d, field), SampleMean(field))
    IN  \/ z < 0
        \/ RLess(RMul(Rat(z * z, 100), SampleVariance(field)), RMul(dev, dev))

\* what identifies a reading in a returned record
ReadingKey(d, field) ==
    <<Get(d, "device_id"), Get(d, "type"), Get(d, "timestamp"), d[field],
      Get(d, "unit")>>

Occurrences(s, x) == Cardinality({i \in 1..Len(s) : s[i] = x})

SameBag(s, t) ==
    /\ Len(s) = Len(t)
    /\ \A i \in 1..Len(s) : Occurrences(s, s[i]) = Occurrences(t, s[i])

OutliersCalled == call.op = "detect_outliers"

(***************************************************************************)
(* C6. detect_outliers returns a reading if and only if the reading has    *)
(* the target field and |v - mean| / s > z_threshold, strictly, where v is *)
(* its normalized value and mean and s are the mean and the sample         *)
(* standard deviation (divisor n - 1) of the normalized values of all      *)
(* readings that have the field; a reading whose z equals the threshold is *)
(* not returned.  (s is defined and positive: at least two values, not all *)
(* equal.)                                                                 *)
(***************************************************************************)
C6_OutliersExactlyAboveThreshold ==
    (/\ OutliersCalled
     /\ Len(Carriers(call.field)) >= 2
     /\ SampleVariance(call.field)[1] # 0)
    => LET f == call.field
           expected == SelectSeq(Carriers(f),
                                 LAMBDA d : ZScoreAbove(d, f, call.z_threshold))
       IN  SameBag([i \in 1..Len(expected) |-> ReadingKey(expected[i], f)],
                   [i \in 1..Len(result) |-> ReadingKey(result[i], f)])

\* 10 C, 131 F = 55 C, 100 C and threshold 1.0: both ends have z = 1.0 exactly
\* and nothing is returned
C6_Witness ==
    /\ OutliersCalled
    /\ call.field = "temperature"
    /\ call.z_threshold = 10
    /\ Len(store) = 3
    /\ Len(Carriers("temperature")) = 3
    /\ {store[i].unit : i \in 1..3} = {"C", "F"}
    /\ \E i \in 1..3 :
          RSub(InCelsius(store[i], "temperature"), SampleMean("temperature"))
             = RInt(45)
    /\ SampleVariance("temperature") = RInt(45 * 45)
    /\ result = <<>>

(***************************************************************************)
(* C7. For a store holding exactly the Celsius temperatures                *)
(* [10, 10, 10, 10, 100], detect_outliers uses mean 28 and the sample      *)
(* standard deviation: the value 100 has a z-score of about 1.8, not 2.0.  *)
(* With z_threshold 1.9 nothing is returned, with z_threshold 1.7 exactly  *)
(* the reading with value 100.                                             *)
(***************************************************************************)
FixedVectorStored ==
    /\ Len(store) = 5
    /\ \A i \in 1..5 : "temperature" \in DOMAIN store[i] /\ store[i].unit = "C"
    /\ Cardinality({i \in 1..5 : store[i].temperature = 100}) = 4
    /\ Cardinality({i \in 1..5 : store[i].temperature = 1000}) = 1

C7_FixedVector ==
    (OutliersCalled /\ call.field = "temperature" /\ FixedVectorStored)
    => /\ ~log
       /\ call.z_threshold = 19 => result = <<>>
       /\ call.z_threshold = 17 =>
             /\ Len(result) = 1
             /\ result[1].temperature = 1000
             /\ result[1].mean = 2800
             /\ result[1].z_score >= 1750 /\ result[1].z_score < 1850

C7_Witness ==
    /\ OutliersCalled
    /\ call.field = "temperature"
    /\ call.z_threshold = 17
    /\ FixedVectorStored
    /\ Len(result) = 1

(***************************************************************************)
(* C8. detect_outliers returns an empty list for every z_threshold         *)
(* whenever all normalized values are equal (standard deviation 0), and    *)
(* does not divide by zero (no exception is caught).                       *)
(***************************************************************************)
AllValuesEqual(field) ==
    \A i, j \in 1..Len(CelsiusValues(field)) :
        CelsiusValues(field)[i] = CelsiusValues(field)[j]

C8_ConstantVectorEmpty ==
    (OutliersCalled /\ AllValuesEqual(call.field))
    => (result = <<>> /\ ~log)

\* four equal values, asked with a negative threshold
C8_Witness ==
    /\ OutliersCalled
    /\ call.z_threshold < 0
    /\ Len(Carriers(call.field)) = 4
    /\ AllValuesEqual(call.field)
    /\ result = <<>>

(***************************************************************************)
(* C9. detect_outliers returns an empty list whenever fewer than 2 stored  *)
(* documents carry the target field, for every z_threshold, without        *)
(* computing a mean or a standard deviation (which would raise).           *)
(***************************************************************************)
C9_InsufficientSampleEmpty ==
    (OutliersCalled /\ Len(Carriers(call.field)) < 2)
    => (result = <<>> /\ ~log)

\* one carrier among several documents
C9_Witness ==
    /\ OutliersCalled
    /\ Len(store) >= 2
    /\ Len(Carriers(call.field)) = 1
    /\ result = <<>>

(***************************************************************************)
(* C10. A value is converted with (v - 32) / 1.8 if and only if the field  *)
(* is temperature and the reading's unit is F; a reading with unit C, or a *)
(* non-temperature field whatever the unit, is used unchanged.  Seen in    *)
(* what is returned: value_celsius of a record is the converted value for  *)
(* an F temperature and the stored value otherwise, and mean is the mean   *)
(* of the values so normalized.                                            *)
(***************************************************************************)
C10_ConvertsOnlyFahrenheitTemperature ==
    OutliersCalled =>
        \A i \in 1..Len(result) :
            LET r == result[i]
                f == call.field
            IN  /\ (f = "temperature" /\ r.unit = "F")
                      => r.value_celsius = RRound(Rat(r.temperature - 320, 18), 100)
                /\ (f = "temperature" /\ r.unit # "F")
                      => r.value_celsius = 10 * r.temperature
                /\ f # "temperature" => r.value_celsius = r[f]
                /\ r.mean = RRound(SampleMean(f), 100)

\* a Fahrenheit temperature returned converted, from a store that mixes units
C10_Witness ==
    /\ OutliersCalled
    /\ call.field = "temperature"
    /\ \E i \in 1..Len(result) :
          /\ result[i].unit = "F"
          /\ result[i].temperature = 1310
          /\ result[i].value_celsius = 5500
    /\ \E j \in 1..Len(store) : store[j].unit = "C" /\ "temperature" \in DOMAIN store[j]

(***************************************************************************)
(* C11. average_temperature_by_hour, count_readings_by_sensor and          *)
(* detect_outliers never raise to their caller, and return the empty list  *)
(* when the analyzer has not connected, when the store raises during the   *)
(* fetch or the aggregation, and when a computation on the fetched data    *)
(* fails.                                                                  *)
(***************************************************************************)
AnalyzerOps ==
    {"average_temperature_by_hour", "count_readings_by_sensor", "detect_outliers"}

\* the stored documents that carry a value that is not a number in field
Malformed(field) ==
    {i \in 1..Len(store) :
        field \in DOMAIN store[i] /\ store[i][field] = NotANumber}

\* the arithmetic of the last call meets a value that is not a number
ComputationFails ==
    \/ /\ call.op = "detect_outliers"
       /\ Malformed(call.field) # {}
       /\ \/ Cardinality({i \in 1..Len(store) :
                              call.field \in DOMAIN store[i]}) >= 2
          \/ \E i \in Malformed(call.field) :
                call.field = "temperature" /\ store[i].unit = "F"
    \/ /\ call.op = "average_temperature_by_hour"
       /\ \E i \in Malformed("temperature") :
             store[i].timestamp[1] * 24 + store[i].timestamp[2]
                 >= now + tz - call.hours_back

C11_AnalyzerNeverRaises ==
    call.op \in AnalyzerOps =>
        /\ escaped = "none"
        /\ (collection = None \/ health # "ok" \/ ComputationFails)
               => result = <<>>

C11_Witness ==
    /\ call.op = "detect_outliers"
    /\ collection = "bound"
    /\ health = "ok"
    /\ ComputationFails
    /\ result = <<>>
    /\ log
    /\ escaped = "none"

(***************************************************************************)
(* C12. connect() of the analyzer, the query class and the sender returns  *)
(* False on every failure and lets no exception through: an unreachable    *)
(* server, a selection timeout, a malformed URI.                           *)
(***************************************************************************)
C12_ConnectNeverRaises ==
    call.op = "connect" =>
        /\ escaped = "none"
        /\ call.env # "reachable" => call.returned = FALSE

(***************************************************************************)
(* C13. The total_readings of the rows count_readings_by_sensor returns    *)
(* sum to the number of stored documents, documents without a device_id    *)
(* included, and there is exactly one row for each distinct device_id.     *)
(***************************************************************************)
RECURSIVE SumOf(_, _)
SumOf(rows, key) ==
    IF rows = <<>> THEN 0 ELSE rows[1][key] + SumOf(Tail(rows), key)

StoredDeviceIds ==
    {IF "device_id" \in DOMAIN store[i] THEN store[i].device_id ELSE None :
        i \in 1..Len(store)}

CountCalled ==
    call.op = "count_readings_by_sensor" /\ collection = "bound" /\ health = "ok"

C13_CountsSumToDocuments ==
    CountCalled =>
        /\ SumOf(result, "total_readings") = Len(store)
        /\ {result[i].device_id : i \in 1..Len(result)} = StoredDeviceIds
        /\ Len(result) = Cardinality(StoredDeviceIds)

C13_Witness ==
    /\ CountCalled
    /\ Len(store) = 3
    /\ Len(result) = 2
    /\ \E i \in 1..Len(store) : "device_id" \notin DOMAIN store[i]
    /\ \E i \in 1..Len(result) :
          result[i].device_id = None /\ result[i].total_readings = 1
    /\ result[1].total_readings = 2

(***************************************************************************)
(* C14. From an empty store, once run(max_readings = N) has sent N         *)
(* readings and returned, the total_readings of count_readings_by_sensor   *)
(* sum to N, whatever inserts failed on the way.                           *)
(***************************************************************************)
RunSentAll == pc = "done" /\ max_readings >= 1 /\ count >= max_readings

C14_SentReadingsAreCounted ==
    (RunSentAll /\ CountCalled) => SumOf(result, "total_readings") = max_readings

\* Two stored readings two hours apart: an iteration between them failed.
C14_Witness ==
    /\ RunSentAll
    /\ CountCalled
    /\ max_readings = 2
    /\ Len(store) = 2
    /\ store[2].timestamp[2] = store[1].timestamp[2] + 2
    /\ SumOf(result, "total_readings") = 2

(***************************************************************************)
(* C15. For a fixed stored set, count_readings_by_sensor, detect_outliers  *)
(* and average_temperature_by_hour return the same output whatever the     *)
(* order in which the store presents the documents, also when one          *)
(* device_id has readings with different locations.                        *)
(***************************************************************************)
\* the store presenting documents i and i + 1 in the other order
Swap(s, i) ==
    [k \in 1..Len(s) |-> IF k = i THEN s[i + 1]
                         ELSE IF k = i + 1 THEN s[i] ELSE s[k]]

\* the last call, made again on the documents in the order coll
Rerun(coll) ==
    CASE call.op = "count_readings_by_sensor" ->
            method(collection, health, Returned(count_readings_by_sensor(coll))).ret
      [] call.op = "detect_outliers" ->
            method(collection, health,
                   detect_outliers(coll, call.field, call.z_threshold)).ret
      [] call.op = "average_temperature_by_hour" ->
            method(collection, health,
                   hourly_try(coll, now, tz, call.hours_back)).ret

AnalyzerCalled ==
    call.op \in AnalyzerOps /\ collection = "bound" /\ health = "ok"

\* every reordering of the store is a chain of such swaps, each from a
\* reachable store
C15_SameOutputForEveryOrder ==
    AnalyzerCalled =>
        /\ Rerun(store) = result
        /\ \A i \in 1..(Len(store) - 1) : Rerun(Swap(store, i)) = result

(***************************************************************************)
(* C15, amended.  Whatever the order of presentation: the hourly rows are  *)
(* the same; the per-sensor rows are the same in device_id, total_readings,*)
(* first_reading and last_reading and are in non-increasing total_readings *)
(* order (sensor_type and location are those of the first document met,    *)
(* rows of equal count come in any order); the outlier records are the     *)
(* same, in non-increasing z_score order (records of equal z_score come in *)
(* any order).                                                             *)
(***************************************************************************)
Column(rows, key) == [i \in 1..Len(rows) |-> rows[i][key]]

Counts(rows) ==
    {<<rows[i].device_id, rows[i].total_readings, rows[i].first_reading,
       rows[i].last_reading>> : i \in 1..Len(rows)}

SameUpToTies(a, b) ==
    CASE call.op = "count_readings_by_sensor" ->
            /\ Counts(a) = Counts(b)
            /\ Column(a, "total_readings") = Column(b, "total_readings")
      [] call.op = "detect_outliers" ->
            /\ SameBag(a, b)
            /\ Column(a, "z_score") = Column(b, "z_score")
      [] call.op = "average_temperature_by_hour" -> a = b

C15_SameOutputUpToTies ==
    AnalyzerCalled =>
        /\ Rerun(store) = result
        /\ \A i \in 1..(Len(store) - 1) :
              SameUpToTies(Rerun(Swap(store, i)), result)

\* one device with two locations: the other order gives the other location
C15_Witness ==
    /\ AnalyzerCalled
    /\ call.op = "count_readings_by_sensor"
    /\ Len(store) = 2
    /\ Get(store[1], "device_id") = "sensor_01"
    /\ Get(store[2], "device_id") = "sensor_01"
    /\ store[1].location # store[2].location
    /\ Len(result) = 1
    /\ result[1].location = store[1].location
    /\ Rerun(Swap(store, 1))[1].location = store[2].location
    /\ SameUpToTies(Rerun(Swap(store, 1)), result)

(***************************************************************************)
(* C16. average_temperature_by_hour returns exactly one row for each       *)
(* (hour of day, type) pair among the readings it selects; readings of one *)
(* type at the same hour of different days are counted in the same row;    *)
(* the readings_count of the rows sum to the number of selected readings.  *)
(***************************************************************************)
\* the stored readings the last hourly call selected
Selected ==
    {i \in 1..Len(store) : InstantOf(store[i]) >= now + tz - call.hours_back}

HourlyAnswered ==
    /\ call.op = "average_temperature_by_hour"
    /\ collection = "bound"
    /\ health = "ok"
    /\ ~ComputationFails

C16_OneRowPerHourAndType ==
    HourlyAnswered =>
        LET pairs == {<<store[i].timestamp[2], store[i].type>> : i \in Selected}
        IN  /\ {<<result[k].hour, result[k].sensor_type>> :
                    k \in 1..Len(result)} = pairs
            /\ Len(result) = Cardinality(pairs)
            /\ \A k \in 1..Len(result) :
                  result[k].readings_count =
                      Cardinality({i \in Selected :
                          /\ store[i].timestamp[2] = result[k].hour
                          /\ store[i].type = result[k].sensor_type})
            /\ SumOf(result, "readings_count") = Cardinality(Selected)

\* two interior readings at 23:00 of consecutive days, one row
C16_Witness ==
    /\ HourlyAnswered
    /\ Len(store) = 3
    /\ Cardinality(Selected) = 3
    /\ \E i, j \in Selected :
          /\ store[i].type = store[j].type
          /\ store[i].timestamp[2] = store[j].timestamp[2]
          /\ store[i].timestamp[1] # store[j].timestamp[1]
          /\ \E k \in 1..Len(result) :
                /\ result[k].hour = store[i].timestamp[2]
                /\ result[k].sensor_type = store[i].type
                /\ result[k].readings_count = 2
    /\ Len(result) = 2

(***************************************************************************)
(* C17. average_temperature_by_hour returns the empty list, and no error,  *)
(* whenever no stored reading falls inside the window of the last          *)
(* hours_back hours, the empty store included.                             *)
(***************************************************************************)
C17_EmptyWindowEmptyResult ==
    (/\ call.op = "average_temperature_by_hour"
     /\ \A i \in 1..Len(store) : ~InWindow(store[i], call.hours_back))
        => /\ result = <<>>
           /\ escaped = "none"
           /\ (collection = "bound" /\ health = "ok") => ~log

(***************************************************************************)
(* C18. The list detect_outliers returns is ordered by z_score, largest    *)
(* first: no record has a larger z_score than the record before it.        *)
(***************************************************************************)
C18_OutliersByDescendingZ ==
    OutliersCalled =>
        \A i \in 1..(Len(result) - 1) : result[i].z_score >= result[i + 1].z_score

\* the store holds the reading of the smaller z_score first
C18_Witness ==
    /\ OutliersCalled
    /\ Len(result) >= 2
    /\ result[1].z_score > result[Len(result)].z_score
    /\ result[Len(result)].device_id = Get(store[1], "device_id")
    /\ result[1].device_id # Get(store[1], "device_id")

(***************************************************************************)
(* C19. The timestamp of each generated reading is the clock instant of    *)
(* its own generator call: the i-th reading of a batch carries the instant *)
(* of the i-th call, not the start of the batch and not the instant of its *)
(* insertion, so the timestamps of a batch never decrease.                 *)
(***************************************************************************)
C19_TimestampIsGenerationInstant ==
    /\ Len(batch) = Len(calledAt)
    /\ \A i \in 1..Len(batch) :
          /\ InstantOf(batch[i]) = calledAt[i]
          /\ batch[i].timestamp[3] = "+00:00"
          /\ \A j \in i..Len(batch) : InstantOf(batch[i]) <= InstantOf(batch[j])
    /\ \A k \in 1..Len(store) :
          \E i \in 1..Len(batch) :
              store[k] = batch[i] /\ InstantOf(store[k]) = calledAt[i]

\* two calls an hour apart, both documents inserted an hour later still
C19_Witness ==
    /\ lote.pc = "done"
    /\ Len(batch) = 2
    /\ calledAt[1] < calledAt[2]
    /\ InstantOf(batch[1]) = calledAt[1]
    /\ InstantOf(batch[2]) = calledAt[2]
    /\ Len(store) = 2
    /\ InstantOf(store[2]) < now

(***************************************************************************)
(* C20. No call of an analyzer or query operation changes the collection:  *)
(* whatever the sequence of such calls, the stored documents stay as they  *)
(* were.                                                                   *)
(***************************************************************************)
ReadOps ==
    AnalyzerOps \cup {"get_last_n_readings", "get_average_temperature_by_type",
                      "filter_exterior_sensors", "get_readings_by_location",
                      "get_readings_count_by_sensor"}

C20_ReadsLeaveStoreUnchanged ==
    [][(call.op = "none" /\ call'.op \in ReadOps) => store' = store]_vars

\* a query has answered with stored documents
C20_Witness ==
    /\ call.op = "get_last_n_readings"
    /\ call.n = 2
    /\ Len(store) = 3
    /\ Len(result) = 2
    /\ \E i \in 1..Len(store) : result[1] = store[i]

(***************************************************************************)
(* C21. run with an integer max_readings = N, N >= 0, never makes more     *)
(* than N successful inserts, and once the N-th insert has succeeded it    *)
(* neither sleeps nor generates again; only max_readings = None runs       *)
(* without limit.                                                          *)
(***************************************************************************)
C21_NeverMoreThanLimit ==
    max_readings # NoLimit =>
        /\ count <= max_readings
        /\ (count = max_readings /\ max_readings >= 1)
               => pc \in {"check", "finally", "done"}

(***************************************************************************)
(* C22. run with max_readings = N >= 1 terminates in the end when inserts  *)
(* succeed again and again.  A failed insert leaves the counter as it was  *)
(* and the next attempt sends a newly generated reading; the loop is left  *)
(* on its own only when the counter has reached N, so it is never left     *)
(* while every insert fails.                                               *)
(***************************************************************************)
C22_TerminatesUnderFairStore ==
    /\ (pc = "generate" /\ max_readings >= 1) ~> (pc = "done")
    /\ [][(pc = "send" /\ store' = store) => count' = count]_vars
    /\ [][pc' = "send" => pc = "generate"]_vars
    /\ [][(pc = "check" /\ pc' = "finally")
            => (max_readings >= 1 /\ count >= max_readings)]_vars

\* the run has ended at its limit after an iteration whose insert failed
C22_Witness ==
    /\ pc = "done"
    /\ client = "closed"
    /\ max_readings = 2
    /\ count = 2
    /\ store[2].timestamp[2] > store[1].timestamp[2] + 1

(***************************************************************************)
(* C23. When connect() fails, run ends without generating or inserting a   *)
(* reading: nothing is generated and no insert is attempted before a       *)
(* successful connection check.                                            *)
(***************************************************************************)
C23_NothingBeforeConnect ==
    /\ (pc \in {"done", "raised"} /\ client \notin {"open", "closed"})
          => (store = <<>> /\ cur = NoReading /\ count = 0)
    /\ (pc \in {"generate", "send", "check", "sleep"} \/ cur # NoReading
           \/ store # <<>>)
          => client \in {"open", "closed"}

\* connect() returned False and run has returned
C23_Witness ==
    /\ pc = "done"
    /\ client = "created"
    /\ max_readings = 2
    /\ store = <<>>
    /\ cur = NoReading
    /\ count = 0

(***************************************************************************)
(* C24. Once run has connected, every way out of the send loop (the limit  *)
(* reached, a user interrupt during generation, insert or sleep) goes      *)
(* through the close of the client: run never ends with the client open,   *)
(* and nothing is inserted after the close.                                *)
(***************************************************************************)
LoopPositions == {"generate", "send", "check", "sleep"}

C24_ClosedOnEveryExit ==
    /\ [](pc = "done" => client # "open")
    /\ [][(pc \in LoopPositions /\ pc' \notin LoopPositions)
            => (pc' = "finally" /\ client' = "open")]_vars
    /\ [][pc = "finally" => (pc' = "done" /\ client' = "closed")]_vars
    /\ [][client = "closed" => (store' = store /\ client' = "closed")]_vars

\* a run of limit 2 interrupted after its first insert
C24_Witness ==
    /\ pc = "done"
    /\ client = "closed"
    /\ max_readings = 2
    /\ count = 1
    /\ Len(store) = 1

(***************************************************************************)
(* C25. send_reading returns True exactly when the store accepted the      *)
(* document, returns False on every insert error and when it is called     *)
(* before connect, and never raises; a call that returned False has left   *)
(* the store as it was.                                                    *)
(***************************************************************************)
C25_SendReadingTrueIffStored ==
    /\ [](call.op = "send_reading" => escaped = "none")
    /\ [][(call.op = "none" /\ call'.op = "send_reading") =>
            /\ call'.returned = (collection = "bound" /\ health = "ok")
            /\ call'.returned => store' = Append(store, call'.reading)
            /\ ~call'.returned => store' = store]_vars

\* called before connect, on a collection other writers have filled
C25_Witness ==
    /\ call.op = "send_reading"
    /\ collection = None
    /\ call.returned = FALSE
    /\ log
    /\ escaped = "none"
    /\ Len(store) = 2

(***************************************************************************)
(* C26. Documents without the target field add nothing to the mean and the *)
(* standard deviation of detect_outliers and are never returned; the count *)
(* tested against the minimum of 2 values is the number of documents that  *)
(* carry the field, not the number of documents fetched.                   *)
(***************************************************************************)
C26_FieldlessDocumentsIgnored ==
    OutliersCalled =>
        LET f == call.field
            n == Len(Carriers(f))
        IN  /\ result = detect_outliers(Carriers(f), f, call.z_threshold).ret
            /\ Len(result) <= n
            /\ n < 2 => result = <<>>
            /\ (n >= 2 /\ ~AllValuesEqual(f)) =>
                  /\ call.z_threshold < 0 => Len(result) = n
                  /\ \A i \in 1..Len(result) :
                        /\ result[i].mean = RRound(SampleMean(f), 100)
                        /\ result[i].std_dev = RoundSqrt(SampleVariance(f), 100)

\* three documents fetched, two of them with a temperature, both returned
C26_Witness ==
    /\ OutliersCalled
    /\ call.field = "temperature"
    /\ call.z_threshold = 0
    /\ Len(store) = 3
    /\ "temperature" \notin DOMAIN store[1]
    /\ Len(Carriers("temperature")) = 2
    /\ Len(result) = 2
    /\ result[1].mean = RRound(SampleMean("temperature"), 100)

(***************************************************************************)
(* C27. detect_outliers computes the mean, the standard deviation and the  *)
(* z-scores from one fetch: readings a sender inserts after the fetch      *)
(* change neither the statistics nor the readings tested, and every        *)
(* returned outlier belongs to the sample its z-score was computed from.   *)
(***************************************************************************)
\* the collection as it was at the fetch: documents are only ever appended
AtFetch == SubSeq(store, 1, Len(fetched))

C27_SingleFetch ==
    (call.op = "detect_outliers" /\ call.pc = "returned") =>
        /\ Len(fetched) <= Len(store)
        /\ result = detect_outliers(AtFetch, call.field, call.z_threshold).ret
        /\ \A i \in 1..Len(result) :
              \E j \in 1..Len(AtFetch) :
                  /\ call.field \in DOMAIN AtFetch[j]
                  /\ ReadingKey(AtFetch[j], call.field)
                        = ReadingKey(result[i], call.field)

\* a third temperature arrived between the fetch and the computation
C27_Witness ==
    /\ call.op = "detect_outliers"
    /\ call.pc = "returned"
    /\ call.field = "temperature"
    /\ Len(fetched) = 2
    /\ Len(store) = 3
    /\ Len(result) = 2
    /\ detect_outliers(store, call.field, call.z_threshold).ret # result

(***************************************************************************)
(* C28. With the default z_threshold of 2.5, detect_outliers returns the   *)
(* empty list for every store with at most 8 documents carrying the field: *)
(* among n values no z-score exceeds (n - 1) / sqrt(n), which passes 2.5   *)
(* only from n = 9 on.                                                     *)
(***************************************************************************)
\* (n - 1) / sqrt(n) as the z_score of a result: rounded to 3 decimals
LargestZScore(n) == RoundSqrt(Rat((n - 1) * (n - 1), n), 1000)

C28_NoOutlierBelowNineValues ==
    (OutliersCalled /\ call.z_threshold = DefaultZThreshold) =>
        /\ Len(Carriers(call.field)) <= 8 => result = <<>>
        /\ \A i \in 1..Len(result) :
              result[i].z_score <= LargestZScore(Len(Carriers(call.field)))

\* nine values, eight of them equal: the ninth is reported, at z = 8 / 3
C28_Witness ==
    /\ OutliersCalled
    /\ call.z_threshold = DefaultZThreshold
    /\ Len(Carriers(call.field)) = 9
    /\ Len(result) = 1
    /\ result[1].z_score = 2667

(***************************************************************************)
(* C29. For every n >= 1, get_last_n_readings(n) answered by the store     *)
(* returns min(n, number of stored documents) documents; they are stored   *)
(* documents with the greatest timestamps, no document left out being      *)
(* newer than a returned one, and they are ordered by timestamp            *)
(* descending.                                                             *)
(***************************************************************************)
LastNAnswered ==
    /\ call.op = "get_last_n_readings"
    /\ call.n >= 1
    /\ collection # None
    /\ ~log

C29_LastNAreTheNewest ==
    LastNAnswered =>
        /\ Len(result) = (IF call.n < Len(store) THEN call.n ELSE Len(store))
        /\ \A i \in 1..Len(result) :
              Occurrences(result, result[i]) <= Occurrences(store, result[i])
        /\ \A j \in 1..Len(store) :
              Occurrences(result, store[j]) < Occurrences(store, store[j]) =>
                  \A i \in 1..Len(result) :
                      ~iso_less(result[i].timestamp, store[j].timestamp)
        /\ \A i \in 1..(Len(result) - 1) :
              ~iso_less(result[i].timestamp, result[i + 1].timestamp)

\* the newest document was stored last and the oldest is left out
C29_Witness ==
    /\ LastNAnswered
    /\ call.n = 2
    /\ Len(store) = 3
    /\ result = <<store[3], store[1]>>
    /\ iso_less(store[2].timestamp, store[1].timestamp)
    /\ iso_less(store[1].timestamp, store[3].timestamp)

(***************************************************************************)
(* C30. A test_connection run that returns True leaves the collection with *)
(* the documents it had before: the probe is deleted again before the      *)
(* return and no other document is removed.  What the collection has more  *)
(* is what a sender inserted meanwhile.                                    *)
(***************************************************************************)
TestReturned(v) ==
    /\ call.op = "test_connection"
    /\ call.pc = "returned"
    /\ call.returned = v

C30_ProbeLeavesNoTrace ==
    TestReturned(TRUE) =>
        /\ Len(call.before) <= Len(store)
        /\ SubSeq(store, 1, Len(call.before)) = call.before
        /\ \A i \in (Len(call.before) + 1)..Len(store) :
              store[i] \in OutlierDocs
        /\ \A i \in 1..Len(store) :
              "_id" \in DOMAIN store[i] => store[i]._id # call.inserted_id

\* the collection held the probe of an earlier, failed run; it is still there
C30_Witness ==
    /\ TestReturned(TRUE)
    /\ call.inserted_id = 2
    /\ Len(call.before) = 2
    /\ store = call.before
    /\ \E i \in 1..2 : store[i] = test_doc(1)

====
